---- MODULE Spec2Model ----
(***************************************************************************)
(* A model of the compile-and-launch pipeline of stealth-paint:            *)
(*   - the Encoder of src/program.rs (push and its validation state),      *)
(*   - the Launcher of src/program.rs (bind, launch) over the Pool of      *)
(*     src/pool.rs,                                                        *)
(*   - the Execution driver (crate::run), modelled from the specification. *)
(* Indices are zero-based as in the source; a Vec v is a sequence read at  *)
(* v[i + 1].                                                               *)
(***************************************************************************)
EXTENDS Integers, Sequences, FiniteSets, TLC

VARIABLES
    encoder,      \* the Encoder record (program.rs, struct Encoder)
    pushResult,   \* outcome of the last Encoder::push: "none", "ok", "err", "panic"
    lastLow,      \* the Low instruction handed to the last push; NoLow when the
                  \* last call on the encoder was a helper
    program,      \* the compiled Program: ops and the ImageBufferPlan
    pool,         \* the Pool the launcher borrows
    pool0,        \* history: the Pool when Program::launch created the Launcher
    launcher,     \* the Launcher: binds and pool_plan
    bindResult,   \* outcome of the last Launcher::bind: "none", "ok", "err", "panic"
    lastBind,     \* history: the arguments of the last Launcher::bind
    bound,        \* history: register -> pool key of its last successful bind
    nbinds,       \* number of bind calls made on the launcher
    phase,        \* where the client is: "idle", "binding", "dropped", "aborted",
                  \* "failed", "running", "retired"
    launchDevice, \* history: how the adapter answered launch: "none", "ok", "refused"
    execution,    \* the Execution: instruction list and instruction pointer
    bufferPlan,   \* an ImageBufferPlan under construction (program.rs)
    ranges,       \* history: the live range handed to each allocate_for
    planCall,     \* the last ImageBufferPlan::get: its register and result
    lent,         \* the (GpuKey, Gpu) pairs select_device handed out, not yet reinserted
    poolCall,     \* the last operation on the Pool: its arguments and result
    cache,        \* the Cache borrowed from the pool by as_cache, if any
    extracted,    \* history: the resources the Cache's extract_* returned
    texelCall,    \* the last Texel::channel_texel: its arguments and result
    editor,       \* the Editor: close_requested and num_frames (editor.rs)
    redraw,       \* the last redraw_request: the draw outcome and what was done with it
    helperCall,   \* the last call of an Encoder helper: its name, result and value
    shaderCalls   \* history: stage, key and index of the keyed shader calls that
                  \* returned Ok, the first for each key

vars == <<encoder, pushResult, lastLow, program, pool, pool0, launcher,
          bindResult, lastBind, bound, nbinds, phase, launchDevice, execution,
          bufferPlan, ranges, planCall, lent, poolCall, cache, extracted,
          texelCall, editor, redraw, helperCall, shaderCalls>>

encoderVars == <<encoder, pushResult, lastLow>>

launcherVars ==
    <<program, pool, pool0, launcher, bindResult, lastBind, bound, nbinds,
      phase, launchDevice>>

\* The launcher's variables other than the pool.
launcherRest ==
    <<program, pool0, launcher, bindResult, lastBind, bound, nbinds, phase,
      launchDevice>>

planVars == <<bufferPlan, ranges, planCall>>

poolVars == <<lent, poolCall, cache, extracted>>

auxVars == <<texelCall, editor, redraw, helperCall, shaderCalls>>

coreVars == <<encoderVars, launcherVars, execution, planVars, poolVars>>

(***************************************************************************)
(* Bounds of the model.                                                    *)
(***************************************************************************)
\* Longest instruction list the encoder specification builds.
MaxInstr == 5

\* Largest operand n of RunTopToBot(n) / RunBotToTop(n) that is pushed.
MaxRun == 2

\* Longest command list that is compiled into a Program.
MaxOps == 3

\* Most bind calls made on one launcher.
MaxBinds == 3

\* Longest instruction list handed to an Execution.
MaxStream == 4

\* Most registers planned into one ImageBufferPlan.
MaxRegs == 3

\* Most devices requested into one pool.
MaxDevices == 2

\* The number of redraw requests the editor is followed through.
MaxFrames == 501

\* The number of resources handed to the cache of the pool.
MaxCached == 2

\* Width in bits of the address space the aligned size of an image must fit.
AddressBits == 16

\* Width in bits of the row-size type of a device buffer (u32, scaled down).
RowBits == 12

EmptyMap == [x \in {} |-> 0]

(***************************************************************************)
(* Encoder (program.rs).  An Option<usize> field is the empty set for None *)
(* and {i} for Some(i); a HashMap is a function on its keys.               *)
(***************************************************************************)
EmptyPlan ==
    [texture |-> <<>>, buffer |-> <<>>, by_register |-> <<>>, by_layout |-> EmptyMap]

EncoderDefault ==
    [ instructions |-> <<>>,
      bind_groups |-> 0,
      bind_group_layouts |-> 0,
      buffers |-> 0,
      command_buffers |-> 0,
      modules |-> 0,
      pipeline_layouts |-> 0,
      render_pipelines |-> 0,
      sampler |-> 0,
      shaders |-> 0,
      textures |-> 0,
      texture_views |-> 0,
      is_in_command_encoder |-> FALSE,
      is_in_render_pass |-> FALSE,
      commands |-> 0,
      buffer_plan |-> EmptyPlan,
      pool_plan |-> EmptyMap,
      paint_group_layout |-> {},
      paint_pipeline_layout |-> {},
      fragment_shaders |-> EmptyMap,
      vertex_shaders |-> EmptyMap,
      simple_quad_buffer |-> {},
      register_map |-> EmptyMap,
      texture_map |-> EmptyMap,
      buffer_map |-> EmptyMap,
      staging_map |-> EmptyMap ]

\* The three ways a fallible call ends: Ok, Err(LaunchError), or a panic.
Ok(e) == [res |-> "ok", enc |-> e]

Err(e) == [res |-> "err", enc |-> e]

Panic(e) == [res |-> "panic", enc |-> e]

\* A BeginCommands arm that opens a command encoder inside an open one.
PushBeginCommandsAgain(e) == Ok([e EXCEPT !.is_in_command_encoder = TRUE])

\* Low::BeginCommands
PushBeginCommands(e) ==
    IF e.is_in_command_encoder
    THEN Err(e)
    ELSE Ok([e EXCEPT !.is_in_command_encoder = TRUE])

\* A BeginRenderPass arm that does not ask for an open command encoder.
PushBeginRenderPassAnywhere(e) ==
    IF e.is_in_render_pass
    THEN Err(e)
    ELSE Ok([e EXCEPT !.is_in_render_pass = TRUE])

\* A BeginRenderPass arm that marks the pass before validating the encoder.
PushBeginRenderPassEager(e) ==
    IF e.is_in_render_pass
    THEN Err(e)
    ELSE IF ~e.is_in_command_encoder
         THEN Err([e EXCEPT !.is_in_render_pass = TRUE])
         ELSE Ok([e EXCEPT !.is_in_render_pass = TRUE])

\* Low::BeginRenderPass(_)
PushBeginRenderPass(e) ==
    IF e.is_in_render_pass
    THEN Err(e)
    ELSE IF ~e.is_in_command_encoder
         THEN Err(e)
         ELSE Ok([e EXCEPT !.is_in_render_pass = TRUE])

\* Low::EndCommands: only the command-encoder flag is examined.
PushEndCommands(e) ==
    IF ~e.is_in_command_encoder
    THEN Err(e)
    ELSE Ok([e EXCEPT !.is_in_command_encoder = FALSE, !.commands = @ + 1])

\* Low::EndRenderPass
PushEndRenderPass(e) ==
    IF ~e.is_in_render_pass
    THEN Err(e)
    ELSE Ok([e EXCEPT !.is_in_render_pass = FALSE])

\* Low::SetBindGroup { group, .. }
PushSetBindGroup(e, group) ==
    IF group >= e.bind_groups THEN Err(e) ELSE Ok(e)

\* A SetVertexBuffer arm that accepts every buffer index.
PushSetVertexBufferUnchecked(e, buffer) == Ok(e)

\* Low::SetVertexBuffer { buffer, .. }
PushSetVertexBuffer(e, buffer) ==
    IF buffer >= e.buffers THEN Err(e) ELSE Ok(e)

\* A RunTopCommand arm without the check for an empty command list.
PushRunTopCommandUnchecked(e) ==
    Ok([e EXCEPT !.commands = @ - 1])

\* Low::RunTopCommand
PushRunTopCommand(e) ==
    IF e.commands = 0
    THEN Err(e)
    ELSE Ok([e EXCEPT !.commands = @ - 1])

\* Low::RunBotToTop(num) | Low::RunTopToBot(num)
PushRunMany(e, num) ==
    IF num >= e.commands
    THEN Err(e)
    ELSE Ok([e EXCEPT !.commands = @ - num])

\* The match of Encoder::push: validation and counter update of one instruction.
PushMatch(e, low) ==
    CASE low.op = "BindGroupLayout" -> Ok([e EXCEPT !.bind_group_layouts = @ + 1])
      [] low.op = "BindGroup" -> Ok([e EXCEPT !.bind_groups = @ + 1])
      [] low.op \in {"Buffer", "BufferInit"} -> Ok([e EXCEPT !.buffers = @ + 1])
      [] low.op = "PipelineLayout" -> Ok([e EXCEPT !.pipeline_layouts = @ + 1])
      [] low.op = "Sampler" -> Ok([e EXCEPT !.sampler = @ + 1])
      [] low.op = "Shader" -> Ok([e EXCEPT !.shaders = @ + 1])
      [] low.op = "Texture" -> Ok([e EXCEPT !.textures = @ + 1])
      [] low.op = "TextureView" -> Ok([e EXCEPT !.texture_views = @ + 1])
      [] low.op = "RenderPipeline" -> Ok([e EXCEPT !.render_pipelines = @ + 1])
      [] low.op = "BeginCommands" -> PushBeginCommands(e)
      [] low.op = "BeginRenderPass" -> PushBeginRenderPass(e)
      [] low.op = "EndCommands" -> PushEndCommands(e)
      [] low.op = "EndRenderPass" -> PushEndRenderPass(e)
      [] low.op = "SetPipeline" -> Panic(e)
      [] low.op = "SetBindGroup" -> PushSetBindGroup(e, low.group)
      [] low.op = "SetVertexBuffer" -> PushSetVertexBuffer(e, low.buffer)
      [] low.op \in {"DrawOnce", "DrawIndexedZero", "SetPushConstants"} -> Ok(e)
      [] low.op = "RunTopCommand" -> PushRunTopCommand(e)
      [] low.op \in {"RunBotToTop", "RunTopToBot"} -> PushRunMany(e, low.num)
      [] low.op \in {"WriteImageToBuffer", "WriteImageToTexture", "ReadBuffer"} -> Ok(e)

\* Encoder::push: the instruction is appended only after its arm passed.
Push(e, low) ==
    LET r == PushMatch(e, low)
    IN  IF r.res = "ok"
        THEN Ok([r.enc EXCEPT !.instructions = Append(@, low)])
        ELSE r

(***************************************************************************)
(* The instructions the encoder specification pushes.                      *)
(***************************************************************************)
NoLow == [op |-> "None"]

LowInputs ==
    { [op |-> o] : o \in {"BeginCommands", "BeginRenderPass", "EndCommands",
                          "EndRenderPass", "RunTopCommand", "SetPipeline",
                          "Buffer", "BindGroup", "DrawOnce"} }
    \cup { [op |-> o, num |-> n] : o \in {"RunTopToBot", "RunBotToTop"}, n \in 1..MaxRun }
    \cup { [op |-> "SetBindGroup", group |-> g] : g \in 0..1 }
    \cup { [op |-> "SetVertexBuffer", buffer |-> b] : b \in 0..1 }

(***************************************************************************)
(* Buffer layouts and image data (buffer.rs, pool.rs)                      *)
(***************************************************************************)
\* BufferLayout values the model draws from.
LayoutA == [width |-> 1, height |-> 1, bytes_per_texel |-> 4]

LayoutB == [width |-> 2, height |-> 1, bytes_per_texel |-> 4]

Layouts == {LayoutA, LayoutB}

\* A layout whose aligned size does not fit the address space.
LayoutHuge == [width |-> 1000, height |-> 100, bytes_per_texel |-> 4]

\* enum SampleParts
SampleParts ==
    { "A", "R", "G", "B", "Rgb", "Bgr", "Rgba", "Rgbx", "Bgra", "Bgrx", "Argb",
      "Xrgb", "Abgr", "Xbgr", "Yuv" }

\* enum SampleBits
SampleBits ==
    { "Int8", "Int332", "Int233", "Int4x4", "Inti444", "Int444i", "Int565",
      "Int8x3", "Int8x4", "Int1010102", "Int2101010", "Int101010i", "Inti101010",
      "Float16x4", "Float32x4" }

\* enum Block
Blocks == {"Pixel", "Sub1x2", "Sub1x4", "Sub2x2", "Sub2x4", "Sub4x4"}

\* enum ColorChannel
ColorChannels == {"R", "G", "B"}

\* enum Color: Xyz models, named by their transfer function.
Colors == {[model |-> "Xyz", transfer |-> t] : t \in {"Srgb", "Linear"}}

\* struct Texel
TexelOf(block, parts, bits, color) ==
    [block |-> block, samples |-> [parts |-> parts, bits |-> bits], color |-> color]

\* An sRGB texel of four 8-bit channels per pixel.
TexelRgba8 ==
    TexelOf("Pixel", "Rgba", "Int8x4", [model |-> "Xyz", transfer |-> "Srgb"])

\* A Descriptor: layout and texel (one texel kind is enough for bind and launch).
DescriptorOf(layout) == [layout |-> layout, texel |-> TexelRgba8]

\* Texel::channel_texel, the match on the parts: the part of the channel.
ChannelParts(parts, channel) ==
    IF parts \in {"Rgb", "Rgbx", "Rgba", "Bgrx", "Bgra", "Abgr", "Argb", "Xrgb", "Xbgr"}
    THEN {channel}
    ELSE {}

\* Texel::channel_texel, the match on the bits.
ChannelBits(bits) ==
    IF bits \in {"Int8", "Int8x3", "Int8x4"} THEN {"Int8"} ELSE {}

\* Texel::channel_texel, the match on the block: every block is kept.
ChannelBlock(block) ==
    IF block \in {"Pixel", "Sub1x2", "Sub1x4", "Sub2x2", "Sub2x4", "Sub4x4"}
    THEN {block}
    ELSE {}

\* Texel::channel_texel: the single-channel texel, or none.
ChannelTexel(texel, channel) ==
    { TexelOf(block, parts, bits, texel.color) :
         block \in ChannelBlock(texel.block),
         parts \in ChannelParts(texel.samples.parts, channel),
         bits \in ChannelBits(texel.samples.bits) }

\* The number of values a SampleParts names.
PartsComponents(parts) ==
    CASE parts \in {"A", "R", "G", "B"} -> 1
      [] parts \in {"Rgb", "Bgr", "Yuv"} -> 3
      [] OTHER -> 4

\* The number of components a SampleBits encodes.
BitsComponents(bits) ==
    CASE bits = "Int8" -> 1
      [] bits \in {"Int332", "Int233", "Int565", "Int8x3"} -> 3
      [] OTHER -> 4

\* Descriptor::is_consistent: the parts are representable in the bits, and the
\* colour applies to the parts (no Yuv parts under an Xyz colour of RGB primaries).
IsConsistent(descriptor) ==
    /\ PartsComponents(descriptor.texel.samples.parts)
          <= BitsComponents(descriptor.texel.samples.bits)
    /\ descriptor.texel.samples.parts # "Yuv"

\* ImageData::Host: `bytes` names the content of the host buffer.
Host(layout, bytes) == [kind |-> "Host", layout |-> layout, bytes |-> bytes]

\* ImageData::GpuBuffer: `buffer` names the content of the device buffer.
GpuBuffer(buffer, layout, gpu) ==
    [kind |-> "GpuBuffer", layout |-> layout, buffer |-> buffer, gpu |-> gpu]

\* ImageData::GpuTexture
GpuTexture(texture, layout, gpu) ==
    [kind |-> "GpuTexture", layout |-> layout, texture |-> texture, gpu |-> gpu]

\* ImageData::LateBound
LateBound(layout) == [kind |-> "LateBound", layout |-> layout]

\* BufferLayout::byte_len
ByteLen(layout) == layout.width * layout.height * layout.bytes_per_texel

\* ImageData::layout
DataLayout(data) == data.layout

\* An Image of the pool: meta, data and descriptor.
ImageOf(data) ==
    [ meta |-> [no_read |-> FALSE, no_write |-> FALSE],
      data |-> data,
      descriptor |-> DescriptorOf(DataLayout(data)) ]

\* A vacant slot of the image slot map.
NoImage == [vacant |-> TRUE]

\* The keys of the image slot map; NullKey is PoolKey::null, which names no image.
PoolKeys == {1, 2}

NullKey == 0

\* The keys request_device hands out, in order.
GpuKeys == 1..MaxDevices

\* Device::Active(Gpu) and Device::Inactive; a Gpu is named by a number.
Active(gpu) == [state |-> "Active", gpu |-> gpu]

Inactive == [state |-> "Inactive"]

\* An empty slot map of cached resources: the live slots and the next fresh key.
EmptySlots == [next |-> 1, slots |-> EmptyMap]

\* Pool::default: no image under any key, no cached resource, no device.
PoolDefault ==
    [ items |-> [k \in PoolKeys |-> NoImage],
      buffers |-> EmptySlots,
      textures |-> EmptySlots,
      shaders |-> EmptySlots,
      pipelines |-> EmptySlots,
      devices |-> EmptyMap ]

\* Pool::entry: the image under the key, if any.
PoolEntry(p, key) ==
    IF key \in DOMAIN p.items THEN p.items[key] ELSE NoImage

\* Pool::new_with_data: the image is inserted under the next key of the slot map.
NewWithData(p, data, descriptor) ==
    [ key |-> CHOOSE k \in PoolKeys :
                 /\ p.items[k] = NoImage
                 /\ \A j \in PoolKeys : p.items[j] = NoImage => k <= j,
      pool |-> [p EXCEPT !.items[CHOOSE k \in PoolKeys :
                                    /\ p.items[k] = NoImage
                                    /\ \A j \in PoolKeys : p.items[j] = NoImage => k <= j] =
                  [ meta |-> [no_read |-> FALSE, no_write |-> FALSE],
                    data |-> data,
                    descriptor |-> descriptor ]] ]

\* Pool::insert: no check of the buffer against the descriptor.
Insert(p, image, descriptor) == NewWithData(p, image, descriptor)

(***************************************************************************)
(* The editor (bin/editor/src/editor.rs).  The surface is outside: what a   *)
(* redraw does to it (Surface::lost) and to the log is recorded.           *)
(***************************************************************************)
\* The frame count at which redraw_request asks for the close.
FrameLimit == 500

\* How Editor::draw_to_surface ends: Ok or a wgpu::SurfaceError.
DrawOutcomes == {"Ok", "Timeout", "Outdated", "Lost", "OutOfMemory"}

\* The draw went through: nothing to handle.
Drawn(ed) == [editor |-> ed, lost |-> FALSE, logged |-> FALSE]

\* A drawn_error that gives up on a lost surface as well.
DrawnErrorLostCloses(ed, err) ==
    [ editor |-> IF err \in {"OutOfMemory", "Lost"}
                 THEN [ed EXCEPT !.close_requested = TRUE]
                 ELSE ed,
      lost |-> err = "Lost",
      logged |-> err \notin {"Lost", "OutOfMemory"} ]

\* Editor::drawn_error
DrawnError(ed, err) ==
    [ editor |-> IF err = "OutOfMemory"
                 THEN [ed EXCEPT !.close_requested = TRUE]
                 ELSE ed,
      lost |-> err = "Lost",
      logged |-> err \notin {"Lost", "OutOfMemory"} ]

\* Editor::redraw_request after the draw: the frame is counted and the close
\* is requested once the frame limit is reached.
CountFrame(r) ==
    [r EXCEPT !.editor.num_frames = @ + 1,
              !.editor.close_requested = @ \/ r.editor.num_frames + 1 >= FrameLimit]

\* A redraw_request that forgets the close request when the draw went through.
RedrawRequestForgets(ed, draw) ==
    IF draw = "Ok"
    THEN CountFrame(Drawn([ed EXCEPT !.close_requested = FALSE]))
    ELSE CountFrame(DrawnError(ed, draw))

\* Editor::redraw_request
RedrawRequest(ed, draw) ==
    IF draw = "Ok"
    THEN CountFrame(Drawn(ed))
    ELSE CountFrame(DrawnError(ed, draw))

(***************************************************************************)
(* Devices of the pool and upload (pool.rs).  Descriptor::to_aligned and   *)
(* Descriptor::to_canvas belong to a later revision of the buffer module   *)
(* and are modelled from the specification.                                *)
(***************************************************************************)
\* The row alignment of device buffers.
RowAlign == 256

\* Descriptor::to_aligned: the row stride padded to the alignment; none (the
\* empty set) iff the aligned size does not fit the address space.
ToAligned(descriptor) ==
    LET row == descriptor.layout.width * descriptor.layout.bytes_per_texel
        row_stride == ((row + RowAlign - 1) \div RowAlign) * RowAlign
    IN  IF row_stride * descriptor.layout.height >= 2 ^ AddressBits
        THEN {}
        ELSE {[row_stride |-> row_stride, height |-> descriptor.layout.height]}

\* Descriptor::to_canvas: the buffer layout of the descriptor.
ToCanvas(descriptor) == descriptor.layout

\* Pool::declare
Declare(p, desc) ==
    IF ~IsConsistent(desc)
    THEN [res |-> "panic", pool |-> p]
    ELSE [res |-> "ok", pool |-> NewWithData(p, LateBound(ToCanvas(desc)), desc).pool]

\* PoolImageMut::declare: descriptor and data are replaced; nothing is asserted.
ImageDeclare(p, key, descriptor) ==
    [ res |-> "ok",
      pool |-> [p EXCEPT !.items[key].descriptor = descriptor,
                         !.items[key].data = LateBound(ToCanvas(descriptor))] ]

\* Pool::request_device: the adapter grants a device or refuses; a granted
\* device is inserted Active under the next key.
RequestDevice(p, granted) ==
    IF ~granted
    THEN [res |-> "err", pool |-> p]
    ELSE [ res |-> "ok",
           key |-> Cardinality(DOMAIN p.devices) + 1,
           pool |-> [p EXCEPT !.devices =
                       [k \in DOMAIN p.devices \cup {Cardinality(DOMAIN p.devices) + 1} |->
                           IF k \in DOMAIN p.devices
                           THEN p.devices[k]
                           ELSE Active(k)]] ]

\* Pool::select_device_key: the first key of the device slot map, if any.
SelectDeviceKey(p) ==
    IF DOMAIN p.devices = {}
    THEN {}
    ELSE {CHOOSE k \in DOMAIN p.devices : \A j \in DOMAIN p.devices : k <= j}

\* A select_device that hands the device out and leaves it in the slot as well.
TakeDeviceCopy(p, key) ==
    IF p.devices[key] = Inactive
    THEN [res |-> "none", pool |-> p]
    ELSE [ res |-> "some",
           key |-> key,
           gpu |-> p.devices[key].gpu,
           pool |-> p ]

\* Pool::select_device after the key is chosen: the slot is replaced by
\* Inactive and its device handed out, if it held one.
TakeDevice(p, key) ==
    IF p.devices[key] = Inactive
    THEN [res |-> "none", pool |-> p]
    ELSE [ res |-> "some",
           key |-> key,
           gpu |-> p.devices[key].gpu,
           pool |-> [p EXCEPT !.devices[key] = Inactive] ]

\* Pool::select_device
SelectDevice(p) ==
    IF SelectDeviceKey(p) = {}
    THEN [res |-> "none", pool |-> p]
    ELSE TakeDevice(p, CHOOSE k \in SelectDeviceKey(p) : TRUE)

\* Pool::reinsert_device
ReinsertDevice(p, key, gpu) ==
    IF key \in DOMAIN p.devices
    THEN [p EXCEPT !.devices[key] = Active(gpu)]
    ELSE p

\* An upload that gives the device back to no slot.
UploadWithDeviceKept(p, img, key, gpu) ==
    IF ToAligned(p.items[img].descriptor) = {}
    THEN [res |-> "BadDescriptor", pool |-> p]
    ELSE [ res |-> "Ok",
           pool |-> [p EXCEPT !.items[img].data =
                       IF @.kind = "Host"
                       THEN GpuBuffer(@.bytes, ToCanvas(p.items[img].descriptor), key)
                       ELSE [@ EXCEPT !.gpu = key]] ]

\* Pool::upload once the device is taken out of its slot: the aligned
\* descriptor, the copy into a new device buffer, the gpu recorded in the data,
\* and the device put back.
UploadWithDevice(p, img, key, gpu) ==
    IF ToAligned(p.items[img].descriptor) = {}
    THEN [res |-> "BadDescriptor", pool |-> p]
    ELSE [ res |-> "Ok",
           pool |-> [p EXCEPT !.items[img].data =
                                 IF @.kind = "Host"
                                 THEN GpuBuffer(@.bytes, ToCanvas(p.items[img].descriptor), key)
                                 ELSE [@ EXCEPT !.gpu = key],
                              !.devices[key] = Active(gpu)] ]

\* An upload that reports a lent-out device as a missing one.
UploadTakeDeviceBlind(p, img, key) ==
    IF key \notin DOMAIN p.devices
    THEN [res |-> "BadGpu", pool |-> p]
    ELSE IF p.devices[key] = Inactive
    THEN [res |-> "BadGpu", pool |-> p]
    ELSE UploadWithDevice([p EXCEPT !.devices[key] = Inactive], img, key,
                          p.devices[key].gpu)

\* Pool::upload at the device slot: BadGpu, InactiveGpu, or the device is
\* replaced by Inactive and taken.
UploadTakeDevice(p, img, key) ==
    IF key \notin DOMAIN p.devices
    THEN [res |-> "BadGpu", pool |-> p]
    ELSE IF p.devices[key] = Inactive
    THEN [res |-> "InactiveGpu", pool |-> p]
    ELSE UploadWithDevice([p EXCEPT !.devices[key] = Inactive], img, key,
                          p.devices[key].gpu)

\* An upload that never takes the image to be on the device already.
AlreadyOnNever(data, key) == FALSE

\* The image data is a GpuTexture or GpuBuffer recorded on the device.
AlreadyOn(data, key) ==
    data.kind \in {"GpuTexture", "GpuBuffer"} /\ data.gpu = key

\* Pool::upload
Upload(p, img, key) ==
    IF PoolEntry(p, img) = NoImage
    THEN [res |-> "BadImage", pool |-> p]
    ELSE IF AlreadyOn(p.items[img].data, key)
    THEN [res |-> "Ok", pool |-> p]
    ELSE IF p.items[img].data.kind = "LateBound"
    THEN [res |-> "NoData", pool |-> p]
    ELSE UploadTakeDevice(p, img, key)

\* PoolImageMut::replace_texture_unguarded: a GpuTexture takes the texture and
\* the key as they come; other data needs the device Active, else it panics.
ReplaceTextureUnguarded(p, img, texture, gpu) ==
    IF p.items[img].data.kind = "GpuTexture"
    THEN [ res |-> "ok",
           pool |-> [p EXCEPT !.items[img].data.texture = texture,
                              !.items[img].data.gpu = gpu] ]
    ELSE IF gpu \notin DOMAIN p.devices
    THEN [res |-> "panic", pool |-> p]
    ELSE IF p.devices[gpu] = Inactive
    THEN [res |-> "panic", pool |-> p]
    ELSE [ res |-> "ok",
           pool |-> [p EXCEPT !.items[img].data =
                       GpuTexture(texture, DataLayout(@), gpu)] ]

(***************************************************************************)
(* The cached device resources of the pool (pool.rs).  A resource is the   *)
(* tuple (descriptor, gpu, data); data names the device object, which       *)
(* knows the device it was created on.                                     *)
(***************************************************************************)
\* The four slot maps of cached resources.
CacheKinds == {"buffers", "textures", "shaders", "pipelines"}

\* The descriptors resources are cached under.
CacheDescriptors == {"desc_a", "desc_b"}

\* GpuKey(slotmap::KeyData::from_ffi(0).into()): the key of no device slot.
NoGpuKey == 0

\* SlotMap::insert of an entry under the next key.
SlotInsert(map, entry) ==
    [ next |-> map.next + 1,
      slots |-> [k \in DOMAIN map.slots \cup {map.next} |->
                   IF k = map.next THEN entry ELSE map.slots[k]] ]

\* SlotMap::remove of a key.
SlotRemove(map, key) ==
    [ next |-> map.next,
      slots |-> [k \in DOMAIN map.slots \ {key} |-> map.slots[k]] ]

\* Pool::insert_cacheable_{texture, buffer, shader, pipeline}
InsertCacheable(p, kind, desc, data) ==
    [p EXCEPT ![kind] =
        SlotInsert(@, [descriptor |-> desc, gpu |-> NoGpuKey, data |-> data])]

\* Pool::reassign_{texture, buffer, shader, pipeline}_gpu_unguarded
ReassignGpuUnguarded(p, kind, key, gpu) ==
    IF key \in DOMAIN p[kind].slots
    THEN [p EXCEPT ![kind].slots[key].gpu = gpu]
    ELSE p

\* A clear_cache that keeps the render pipelines.
ClearCacheButPipelines(p) ==
    [p EXCEPT !.buffers.slots = EmptyMap,
              !.textures.slots = EmptyMap,
              !.shaders.slots = EmptyMap]

\* Pool::clear_cache
ClearCache(p) ==
    [p EXCEPT !.buffers.slots = EmptyMap,
              !.textures.slots = EmptyMap,
              !.shaders.slots = EmptyMap,
              !.pipelines.slots = EmptyMap]

\* The keys of a set in the iteration order of the slot map.
KeysInOrder(keys) ==
    CHOOSE q \in [1..Cardinality(keys) -> keys] :
       \A i \in 1..Cardinality(keys) : \A j \in 1..Cardinality(keys) :
          i < j => q[i] < q[j]

\* An index that lists the resources of every device.
KeysOfAnyGpu(slots, desc, gpu) ==
    KeysInOrder({k \in DOMAIN slots : slots[k].descriptor = desc})

\* Pool::as_cache, one loop: the keys pushed for a descriptor, skipping the
\* resources recorded for another gpu.
KeysOf(slots, desc, gpu) ==
    KeysInOrder({k \in DOMAIN slots :
                   slots[k].gpu = gpu /\ slots[k].descriptor = desc})

\* Pool::as_cache
AsCache(p, gpu) ==
    [ borrowed |-> TRUE,
      gpu |-> gpu,
      sets |-> [kind \in CacheKinds |->
                  [desc \in CacheDescriptors |-> KeysOf(p[kind].slots, desc, gpu)]] ]

\* Cache::extract_* after the pop: the key is gone from the index; the slot
\* map gives up the resource if it still holds the key.
ExtractPopped(p, c, kind, key) ==
    IF key \notin DOMAIN p[kind].slots
    THEN [res |-> "none", pool |-> p, cache |-> c]
    ELSE [ res |-> "some",
           key |-> key,
           entry |-> p[kind].slots[key],
           pool |-> [p EXCEPT ![kind] = SlotRemove(@, key)],
           cache |-> c ]

\* Cache::extract_{texture, buffer, shader, pipeline}
Extract(p, c, kind, desc) ==
    IF c.sets[kind][desc] = <<>>
    THEN [res |-> "none", pool |-> p, cache |-> c]
    ELSE ExtractPopped(p,
                       [c EXCEPT !.sets[kind][desc] = SubSeq(@, 1, Len(@) - 1)],
                       kind,
                       c.sets[kind][desc][Len(c.sets[kind][desc])])

(***************************************************************************)
(* The planner and the compiled program (program.rs; compile itself is in  *)
(* crate::command and is modelled from the specification).                 *)
(***************************************************************************)
\* An allocate_for that hands a register the buffer of an earlier register of
\* the same layout, whatever the live ranges.
AllocateForShared(plan, desc) ==
    LET texture == Len(plan.texture)
        same == {i \in DOMAIN plan.by_register :
                    plan.buffer[plan.by_register[i].buffer + 1] = desc.layout}
        buffer == IF same = {}
                  THEN Len(plan.buffer)
                  ELSE plan.by_register[CHOOSE i \in same : TRUE].buffer
    IN  [ texture |-> Append(plan.texture, desc),
          buffer |-> IF same = {} THEN Append(plan.buffer, desc.layout) ELSE plan.buffer,
          by_register |-> Append(plan.by_register, [texture |-> texture, buffer |-> buffer]),
          by_layout |-> [l \in DOMAIN plan.by_layout \cup {desc.layout} |->
                            IF l = desc.layout THEN texture ELSE plan.by_layout[l]] ]

\* ImageBufferPlan::allocate_for: a new texture and a new buffer per call.
AllocateFor(plan, desc) ==
    LET texture == Len(plan.texture)
        buffer == Len(plan.buffer)
    IN  [ texture |-> Append(plan.texture, desc),
          buffer |-> Append(plan.buffer, desc.layout),
          by_register |-> Append(plan.by_register, [texture |-> texture, buffer |-> buffer]),
          by_layout |-> [l \in DOMAIN plan.by_layout \cup {desc.layout} |->
                            IF l = desc.layout THEN texture ELSE plan.by_layout[l]] ]

\* ImageBufferPlan::get
PlanGet(plan, idx) ==
    IF idx + 1 \in DOMAIN plan.by_register
    THEN [res |-> "ok", val |-> plan.by_register[idx + 1]]
    ELSE [res |-> "err"]

\* High::Input(Register, Descriptor) and High::Output(Register)
HighInput(reg, desc) == [op |-> "Input", reg |-> reg, descriptor |-> desc]

HighOutput(reg) == [op |-> "Output", reg |-> reg]

IsInput(prog, reg) ==
    reg + 1 \in DOMAIN prog.ops /\ prog.ops[reg + 1].op = "Input"

\* The registers that hold an image an Output may consume.
InputRegisters(prog) == {r \in 0..(Len(prog.ops) - 1) : IsInput(prog, r)}

\* compile: one op per command, the op's position being its register, and one
\* allocate_for per register.
CompileInput(prog, layout) ==
    [ ops |-> Append(prog.ops, HighInput(Len(prog.ops), DescriptorOf(layout))),
      textures |-> AllocateFor(prog.textures, DescriptorOf(layout)) ]

CompileOutput(prog, src) ==
    [ ops |-> Append(prog.ops, HighOutput(src)),
      textures |-> AllocateFor(prog.textures, prog.textures.texture[src + 1]) ]

EmptyProgram == [ops |-> <<>>, textures |-> EmptyPlan]

RECURSIVE Programs(_)
\* The programs compiled from command lists of at most n commands.
Programs(n) ==
    IF n = 0
    THEN {EmptyProgram}
    ELSE LET shorter == Programs(n - 1)
             longest == {prog \in shorter : Len(prog.ops) = n - 1}
         IN  shorter
             \cup {CompileInput(prog, l) : prog \in longest, l \in Layouts}
             \cup UNION {{CompileOutput(prog, src) : src \in InputRegisters(prog)}
                          : prog \in longest}

(***************************************************************************)
(* Launcher (program.rs)                                                   *)
(***************************************************************************)
\* Program::launch: every bind slot starts LateBound with the planned layout.
ProgramLaunch(prog) ==
    [ binds |-> [i \in DOMAIN prog.textures.texture |->
                    LateBound(prog.textures.texture[i].layout)],
      pool_plan |-> EmptyMap ]

\* PoolImageMut::swap after its assertion: exchange the entry's data with the slot.
SwapData(p, l, key, texture) ==
    [ res |-> "ok",
      pool |-> [p EXCEPT !.items[key].data = l.binds[texture + 1]],
      launcher |-> [l EXCEPT !.binds[texture + 1] = p.items[key].data] ]

\* PoolImageMut::swap: asserts equal layouts, then swaps.
EntrySwap(p, l, key, texture) ==
    IF DataLayout(p.items[key].data) # DataLayout(l.binds[texture + 1])
    THEN [res |-> "panic", pool |-> p, launcher |-> l]
    ELSE SwapData(p, l, key, texture)

\* A bind that swaps as soon as the pool entry is found, before looking at the op.
LauncherBindEager(prog, p, l, reg, key) ==
    IF PoolEntry(p, key) = NoImage
    THEN [res |-> "err", pool |-> p, launcher |-> l]
    ELSE IF PlanGet(prog.textures, reg).res # "ok"
    THEN [res |-> "err", pool |-> p, launcher |-> l]
    ELSE LET s == EntrySwap(p, l, key, PlanGet(prog.textures, reg).val.texture)
         IN  IF ~IsInput(prog, reg)
             THEN [res |-> "err", pool |-> s.pool, launcher |-> s.launcher]
             ELSE s

\* Launcher::bind
LauncherBind(prog, p, l, reg, key) ==
    IF PoolEntry(p, key) = NoImage
    THEN [res |-> "err", pool |-> p, launcher |-> l]
    ELSE IF ~IsInput(prog, reg)
    THEN [res |-> "err", pool |-> p, launcher |-> l]
    ELSE IF PlanGet(prog.textures, reg).res # "ok"
    THEN [res |-> "err", pool |-> p, launcher |-> l]
    ELSE EntrySwap(p, l, key, PlanGet(prog.textures, reg).val.texture)

(***************************************************************************)
(* Helpers of the encoder that emit resources (program.rs).  A helper      *)
(* returns the encoder it leaves and, where it has one, the index it       *)
(* returns.                                                                *)
(***************************************************************************)
\* Ok(value) of a fallible helper.
OkVal(e, v) == [res |-> "ok", enc |-> e, val |-> v]

\* The value held by an Option that is Some.
Some(opt) == CHOOSE v \in opt : TRUE

\* enum VertexShader
VertexShaderKeys == {"Noop"}

\* enum FragmentShader, over enum PaintOnTopKind
FragmentShaderKeys == {"PaintOnTopCopy"}

\* A texture_view that appends the instruction and leaves the counter alone.
TextureViewUncounted(e, descriptor) ==
    [ enc |-> [e EXCEPT !.instructions =
                            Append(@, [op |-> "TextureView", descriptor |-> descriptor])],
      val |-> e.texture_views ]

\* Encoder::texture_view
TextureView(e, descriptor) ==
    [ enc |-> [e EXCEPT !.instructions =
                            Append(@, [op |-> "TextureView", descriptor |-> descriptor]),
                        !.texture_views = @ + 1],
      val |-> e.texture_views ]

\* A make_paint_group that emits its layout on every call.
MakePaintGroupAlways(e) ==
    [ enc |-> [e EXCEPT !.instructions =
                            Append(@, [op |-> "BindGroupLayout", entries |-> <<"Sampler">>]),
                        !.bind_group_layouts = @ + 1,
                        !.paint_group_layout = {e.bind_group_layouts}],
      val |-> e.bind_group_layouts ]

\* Encoder::make_paint_group: get_or_insert_with on paint_group_layout.
MakePaintGroup(e) ==
    IF e.paint_group_layout # {}
    THEN [enc |-> e, val |-> Some(e.paint_group_layout)]
    ELSE [ enc |-> [e EXCEPT !.instructions =
                                 Append(@, [op |-> "BindGroupLayout", entries |-> <<"Sampler">>]),
                             !.bind_group_layouts = @ + 1,
                             !.paint_group_layout = {e.bind_group_layouts}],
           val |-> e.bind_group_layouts ]

\* make_paint_layout after make_paint_group(): get_or_insert_with on
\* paint_pipeline_layout.
PaintLayoutOf(g) ==
    IF g.enc.paint_pipeline_layout # {}
    THEN [enc |-> g.enc, val |-> Some(g.enc.paint_pipeline_layout)]
    ELSE [ enc |-> [g.enc EXCEPT !.instructions =
                                     Append(@, [ op |-> "PipelineLayout",
                                                 bind_group_layouts |-> <<g.val>>,
                                                 push_constant_ranges |-> <<[start |-> 0, end |-> 16]>> ]),
                                 !.pipeline_layouts = @ + 1,
                                 !.paint_pipeline_layout = {g.enc.pipeline_layouts}],
           val |-> g.enc.pipeline_layouts ]

\* Encoder::make_paint_layout
MakePaintLayout(e) == PaintLayoutOf(MakePaintGroup(e))

\* Encoder::shader
Shader(e, desc) ==
    IF ~e.is_in_command_encoder
    THEN Err(e)
    ELSE OkVal([e EXCEPT !.instructions = Append(@, [op |-> "Shader", desc |-> desc]),
                         !.shaders = @ + 1],
               e.shaders)

\* The ShaderDescriptor both shader helpers build.
ShaderDescriptor(source) == [name |-> "", flags |-> {}, source_spirv |-> source]

\* Encoder::fragment_shader: the map is read, and no arm writes to it.
FragmentShader(e, kind, source) ==
    IF kind # {} /\ Some(kind) \in DOMAIN e.fragment_shaders
    THEN OkVal(e, e.fragment_shaders[Some(kind)])
    ELSE Shader(e, ShaderDescriptor(source))

\* Encoder::vertex_shader: the map is read, and no arm writes to it.
VertexShader(e, kind, source) ==
    IF kind # {} /\ Some(kind) \in DOMAIN e.vertex_shaders
    THEN OkVal(e, e.vertex_shaders[Some(kind)])
    ELSE Shader(e, ShaderDescriptor(source))

\* A simple_quad_buffer that emits the quad without counting it.
SimpleQuadBufferUncounted(e) ==
    IF e.simple_quad_buffer # {}
    THEN [enc |-> e, val |-> Some(e.simple_quad_buffer)]
    ELSE [ enc |-> [e EXCEPT !.instructions =
                                 Append(@, [ op |-> "BufferInit",
                                             usage |-> "InVertices",
                                             content |-> <<0, 0, 0, 1, 1, 1, 1, 0>> ]),
                             !.simple_quad_buffer = {e.buffers}],
           val |-> e.buffers ]

\* Encoder::simple_quad_buffer: get_or_insert_with on simple_quad_buffer.
SimpleQuadBuffer(e) ==
    IF e.simple_quad_buffer # {}
    THEN [enc |-> e, val |-> Some(e.simple_quad_buffer)]
    ELSE [ enc |-> [e EXCEPT !.instructions =
                                 Append(@, [ op |-> "BufferInit",
                                             usage |-> "InVertices",
                                             content |-> <<0, 0, 0, 1, 1, 1, 1, 0>> ]),
                             !.buffers = @ + 1,
                             !.simple_quad_buffer = {e.buffers}],
           val |-> e.buffers ]

\* Encoder::attachment_format: todo!().
AttachmentFormat(e) == Panic(e)

\* simple_render_pipeline after attachment_format()?: the descriptor needs the
\* paint pipeline layout, and is appended once it is built.
RenderPipelineOf(f, vertex, fragment) ==
    IF f.res # "ok"
    THEN f
    ELSE IF f.enc.paint_pipeline_layout = {}
    THEN Err(f.enc)
    ELSE OkVal([f.enc EXCEPT !.instructions =
                                 Append(@, [ op |-> "RenderPipeline",
                                             vertex |-> vertex,
                                             fragment |-> fragment,
                                             primitive |-> "SoleQuad",
                                             layout |-> Some(f.enc.paint_pipeline_layout) ]),
                             !.render_pipelines = @ + 1],
               f.enc.render_pipelines)

\* Encoder::simple_render_pipeline
SimpleRenderPipeline(e, vertex, fragment) ==
    RenderPipelineOf(AttachmentFormat(e), vertex, fragment)

\* render_simple_pipeline after push(SetVertexBuffer)?.
DrawQuad(s) == IF s.res # "ok" THEN s ELSE Push(s.enc, [op |-> "DrawOnce", vertices |-> 6])

\* render_simple_pipeline after its todo!(): binds the quad and draws it.
BindQuad(t, buffer) ==
    IF t.res # "ok"
    THEN t
    ELSE DrawQuad(Push(t.enc, [op |-> "SetVertexBuffer", buffer |-> buffer, slot |-> 0]))

\* render_simple_pipeline after simple_quad_buffer(): the todo!() comes first.
RenderQuad(b) == BindQuad(Panic(b.enc), b.val)

\* Encoder::render_simple_pipeline
RenderSimplePipeline(e, vertex, fragment) == RenderQuad(SimpleQuadBuffer(e))

\* render after fragment_shader(..)?.
RenderFragment(f, vertex) ==
    IF f.res # "ok" THEN f ELSE RenderSimplePipeline(f.enc, vertex, f.val)

\* render after vertex_shader(..)?.
RenderVertex(v, function) ==
    IF v.res # "ok"
    THEN v
    ELSE RenderFragment(
             FragmentShader(v.enc, {"PaintOnTop" \o function.paint_on_top}, "FRAG_COPY"),
             v.val)

\* Encoder::render, for Function::PaintOnTop.
Render(e, function) == RenderVertex(VertexShader(e, {"Noop"}, "VERT_NOOP"), function)

(***************************************************************************)
(* Lowering of the high-level ops (program.rs).  A todo!() is a panic.     *)
(***************************************************************************)
\* allocate_register after make_texture_descriptor(..)?: the Low::Buffer it
\* pushes has todo!() for its size and usage.
PushBufferDescriptor(t, idx) == IF t.res # "ok" THEN t ELSE Panic(t.enc)

\* Encoder::make_texture_descriptor: ends in todo!().
MakeTextureDescriptor(e, descriptor) == Panic(e)

\* u32::checked_mul: none (the empty set) when the product leaves the type.
CheckedMul(a, b) == IF a * b >= 2 ^ RowBits THEN {} ELSE {a * b}

\* The second checked_mul of bytes_per_row: the row rounded up to 256.
RoundedRow(row) ==
    IF row = {}
    THEN {}
    ELSE CheckedMul(Some(row) \div RowAlign
                       + (IF Some(row) % RowAlign # 0 THEN 1 ELSE 0),
                    RowAlign)

\* bytes_per_row of allocate_register: bytes_per_texel is cast to the row
\* type, multiplied by the width and rounded up, each with checked_mul.
BytesPerRow(layout) ==
    RoundedRow(CheckedMul(layout.bytes_per_texel % 2 ^ RowBits, layout.width))

\* allocate_register after make_texture_descriptor(..)?: the two ok_or(..)? of
\* bytes_per_row.
RowChecked(t, descriptor) ==
    IF t.res # "ok"
    THEN t
    ELSE IF BytesPerRow(descriptor.layout) = {}
    THEN Err(t.enc)
    ELSE t

\* Encoder::allocate_register: the plan lookup, the register_map hit, and the
\* first allocation, which needs make_texture_descriptor and a BufferDescriptor
\* whose size and usage are todo!().
AllocateRegister(e, idx) ==
    IF PlanGet(e.buffer_plan, idx).res # "ok"
    THEN Err(e)
    ELSE IF idx \in DOMAIN e.register_map
    THEN Ok(e)
    ELSE PushBufferDescriptor(
             RowChecked(
                 MakeTextureDescriptor(
                     e, e.buffer_plan.texture[PlanGet(e.buffer_plan, idx).val.texture + 1]),
                 e.buffer_plan.texture[PlanGet(e.buffer_plan, idx).val.texture + 1]),
             idx)

\* The Low::WriteImageToBuffer of copy_input_to_buffer: the source is looked up
\* in the pool plan, and the result of the push is not examined.
WriteImageToBuffer(e, idx) ==
    IF idx \notin DOMAIN e.pool_plan
    THEN Err(e)
    ELSE Ok(Push(e, [ op |-> "WriteImageToBuffer",
                      source_image |-> e.pool_plan[idx],
                      size |-> << e.buffer_plan.texture[e.register_map[idx].texture + 1].layout.width,
                                  e.buffer_plan.texture[e.register_map[idx].texture + 1].layout.height >>,
                      offset |-> <<0, 0>>,
                      target_buffer |-> e.register_map[idx].buffer,
                      target_layout |-> e.register_map[idx].buffer_layout ]).enc)

\* copy_input_to_buffer after allocate_register(idx)?.
WriteInput(a, idx) ==
    IF a.res # "ok"
    THEN a
    ELSE WriteImageToBuffer(a.enc, idx)

\* Encoder::copy_input_to_buffer
CopyInputToBuffer(e, idx) == WriteInput(AllocateRegister(e, idx), idx)

\* Encoder::copy_buffer_to_staging: todo!().
CopyBufferToStaging(e, idx) == Panic(e)

\* Encoder::copy_staging_to_buffer: todo!().
CopyStagingToBuffer(e, idx) == Panic(e)

\* Encoder::copy_buffer_to_output: todo!().
CopyBufferToOutput(e, idx) == Panic(e)

\* The High::Input arm of Launcher::launch after copy_input_to_buffer(dst)?.
StageInput(c, dst) == IF c.res # "ok" THEN c ELSE CopyBufferToStaging(c.enc, dst)

\* The High::Input arm of Launcher::launch.
LowerInput(e, dst) == StageInput(CopyInputToBuffer(e, dst), dst)

\* The High::Output arm of Launcher::launch after copy_staging_to_buffer(dst)?.
WriteOutput(c, dst) == IF c.res # "ok" THEN c ELSE CopyBufferToOutput(c.enc, dst)

\* The High::Output arm of Launcher::launch.
LowerOutput(e, dst) == WriteOutput(CopyStagingToBuffer(e, dst), dst)

\* Encoder::copy_staging_to_texture: todo!() when the texture has a staging entry.
CopyStagingToTexture(e, idx) == IF idx \in DOMAIN e.staging_map THEN Panic(e) ELSE Ok(e)

\* Encoder::copy_texture_to_staging: todo!() when the texture has a staging entry.
CopyTextureToStaging(e, idx) == IF idx \in DOMAIN e.staging_map THEN Panic(e) ELSE Ok(e)

\* High::Paint { texture, dst, fn_ } with Target::Discard or Target::Load as dst.
HighPaint(texture, target, dst, kind) ==
    [ op |-> "Paint", texture |-> texture,
      dst |-> [target |-> target, texture |-> dst],
      fn_ |-> [paint_on_top |-> kind] ]

\* The wgpu::Operations of the Paint arm: what the pass does with its target.
PaintOperations(dst) ==
    IF dst.target = "Discard"
    THEN [load |-> "ClearTransparent", store |-> TRUE]
    ELSE [load |-> "Load", store |-> TRUE]

\* The Paint arm after push(RunTopCommand)?.
PaintQuantize(r, high) ==
    IF r.res # "ok" THEN r ELSE CopyTextureToStaging(r.enc, high.texture)

\* The Paint arm after push(EndCommands)?.
PaintRun(r, high) ==
    IF r.res # "ok" THEN r ELSE PaintQuantize(Push(r.enc, [op |-> "RunTopCommand"]), high)

\* The Paint arm after push(EndRenderPass)?.
PaintEndCommands(r, high) ==
    IF r.res # "ok" THEN r ELSE PaintRun(Push(r.enc, [op |-> "EndCommands"]), high)

\* The Paint arm after render(fn_)?.
PaintEndPass(r, high) ==
    IF r.res # "ok" THEN r ELSE PaintEndCommands(Push(r.enc, [op |-> "EndRenderPass"]), high)

\* The Paint arm after push(BeginRenderPass)?.
PaintRender(r, high) ==
    IF r.res # "ok" THEN r ELSE PaintEndPass(Render(r.enc, high.fn_), high)

\* The Paint arm after push(BeginCommands)?: the pass is begun on the view.
PaintAttach(r, view, high) ==
    IF r.res # "ok"
    THEN r
    ELSE PaintRender(
             Push(r.enc, [ op |-> "BeginRenderPass",
                           color_attachments |->
                               << [texture_view |-> view, ops |-> PaintOperations(high.dst)] >>,
                           depth_stencil |-> {} ]),
             high)

\* The Paint arm after texture_view(..).
PaintBegin(v, high) == PaintAttach(Push(v.enc, [op |-> "BeginCommands"]), v.val, high)

\* The Paint arm after copy_staging_to_texture(texture)?: the paint layout and
\* the view of the target are made before the pass.
PaintPass(c, high) ==
    IF c.res # "ok"
    THEN c
    ELSE PaintBegin(TextureView(MakePaintLayout(c.enc).enc, [texture |-> high.dst.texture]),
                    high)

\* The High::Paint arm of Launcher::launch.
LowerPaint(e, high) == PaintPass(CopyStagingToTexture(e, high.texture), high)

LowerHigh(e, high) ==
    CASE high.op = "Input" -> LowerInput(e, high.reg)
      [] high.op = "Output" -> LowerOutput(e, high.reg)
      [] high.op = "Paint" -> LowerPaint(e, high)
      [] high.op = "Construct" -> Panic(e)

RECURSIVE LowerOps(_, _, _), LowerRest(_, _, _)
\* The lowering loop of Launcher::launch over ops[i..], stopping at the first
\* op that does not return Ok.
LowerOps(e, ops, i) ==
    IF i > Len(ops)
    THEN Ok(e)
    ELSE LowerRest(LowerHigh(e, ops[i]), ops, i + 1)

\* The loop goes on to ops[i..] when the op before returned Ok.
LowerRest(r, ops, i) == IF r.res # "ok" THEN r ELSE LowerOps(r.enc, ops, i)

RECURSIVE InputsSuppliedFirstOnly(_, _, _)
\* A variant of the input check that stops after the first Input it meets.
InputsSuppliedFirstOnly(prog, l, i) ==
    IF i > Len(prog.ops)
    THEN "ok"
    ELSE IF prog.ops[i].op # "Input"
    THEN InputsSuppliedFirstOnly(prog, l, i + 1)
    ELSE IF prog.ops[i].reg + 1 \notin DOMAIN l.binds
    THEN "panic"
    ELSE IF l.binds[prog.ops[i].reg + 1].kind = "LateBound"
    THEN "err"
    ELSE "ok"

RECURSIVE InputsSupplied(_, _, _)
\* The first loop of Launcher::launch: "ok" when no Input's slot is LateBound,
\* "err" at the first that is, "panic" on a slot index outside binds.
InputsSupplied(prog, l, i) ==
    IF i > Len(prog.ops)
    THEN "ok"
    ELSE IF prog.ops[i].op # "Input"
    THEN InputsSupplied(prog, l, i + 1)
    ELSE IF prog.ops[i].reg + 1 \notin DOMAIN l.binds
    THEN "panic"
    ELSE IF l.binds[prog.ops[i].reg + 1].kind = "LateBound"
    THEN "err"
    ELSE InputsSupplied(prog, l, i + 1)

(***************************************************************************)
(* Execution (crate::run), modelled from the specification: the            *)
(* instruction list is run in order, one submission chunk per step.        *)
(***************************************************************************)
NoExecution ==
    [instructions |-> <<>>, instruction_pointer |-> 0, executed |-> <<>>,
     buffers |-> PoolDefault]

\* Execution::new(InitialState)
ExecutionNew(instructions, buffers) ==
    [instructions |-> instructions, instruction_pointer |-> 0, executed |-> <<>>,
     buffers |-> buffers]

\* Execution::is_running
IsRunning(x) == x.instruction_pointer < Len(x.instructions)

IsSubmission(low) == low.op \in {"RunTopCommand", "RunTopToBot", "RunBotToTop"}

\* The end of the chunk that starts after position ip: the next submission, or
\* the end of the list.
ChunkEnd(instructions, ip) ==
    LET ends == {j \in (ip + 1)..Len(instructions) : IsSubmission(instructions[j])}
    IN  IF ends = {} THEN Len(instructions)
        ELSE CHOOSE j \in ends : \A k \in ends : j <= k

\* A step that runs its chunk but leaves the instruction pointer on a submission.
ExecutionStepStuck(x) ==
    LET end == ChunkEnd(x.instructions, x.instruction_pointer)
    IN  [x EXCEPT !.executed = @ \o SubSeq(x.instructions, x.instruction_pointer + 1, end),
                  !.instruction_pointer =
                      IF IsSubmission(x.instructions[end]) THEN end - 1 ELSE end]

\* Execution::step
ExecutionStep(x) ==
    LET end == ChunkEnd(x.instructions, x.instruction_pointer)
    IN  [x EXCEPT !.executed = @ \o SubSeq(x.instructions, x.instruction_pointer + 1, end),
                  !.instruction_pointer = end]

\* Launcher::launch
\* The end of Launcher::launch: a failed lowering leaves the pool, a finished
\* one hands instructions and pool to the Execution.
LaunchPackage(lowered, p) ==
    IF lowered.res # "ok"
    THEN [res |-> lowered.res, enc |-> lowered.enc, pool |-> p, execution |-> NoExecution]
    ELSE [ res |-> "ok",
           enc |-> lowered.enc,
           pool |-> PoolDefault,
           execution |-> ExecutionNew(lowered.enc.instructions, p) ]

\* The encoder Launcher::launch starts from.
LaunchEncoder(prog, l) ==
    [EncoderDefault EXCEPT !.buffer_plan = prog.textures, !.pool_plan = l.pool_plan]

\* What launch returns before it has an encoder.
LaunchRefused(res, p) ==
    [res |-> res, enc |-> EncoderDefault, pool |-> p, execution |-> NoExecution]

\* Launcher::launch
LauncherLaunch(prog, p, l, deviceOk) ==
    IF InputsSupplied(prog, l, 1) # "ok"
    THEN LaunchRefused(InputsSupplied(prog, l, 1), p)
    ELSE IF ~deviceOk
    THEN LaunchRefused("err", p)
    ELSE LaunchPackage(LowerOps(LaunchEncoder(prog, l), prog.ops, 1), p)

(***************************************************************************)
(* Initial states                                                          *)
(***************************************************************************)
NoBind == [reg |-> 0, key |-> NullKey]

EncoderIdle ==
    /\ encoder = EncoderDefault
    /\ pushResult = "none"
    /\ lastLow = NoLow

LauncherIdle ==
    /\ program = EmptyProgram
    /\ pool = PoolDefault
    /\ pool0 = PoolDefault
    /\ launcher = ProgramLaunch(EmptyProgram)
    /\ bindResult = "none"
    /\ lastBind = NoBind
    /\ bound = EmptyMap
    /\ nbinds = 0
    /\ launchDevice = "none"

\* No ImageBufferPlan::get was called yet.
NoPlanCall == [idx |-> 0, res |-> "none"]

PlanIdle ==
    /\ bufferPlan = EmptyPlan
    /\ ranges = <<>>
    /\ planCall = NoPlanCall

\* No operation on the pool was called yet.
NoPoolCall == [op |-> "none", res |-> "none"]

\* No Cache is borrowed from the pool.
NoCache == [borrowed |-> FALSE]

PoolIdle ==
    /\ lent = {}
    /\ poolCall = NoPoolCall
    /\ cache = NoCache
    /\ extracted = {}

\* No channel_texel call was made.
NoTexelCall == [res |-> "idle"]

\* Editor::default
EditorDefault == [close_requested |-> FALSE, num_frames |-> 0]

\* No redraw was requested.
NoRedraw == [draw |-> "none"]

\* No helper of the encoder was called.
NoHelperCall == [op |-> "none", res |-> "none"]

\* Texel, editor and encoder helpers are untouched.
AuxIdle ==
    /\ texelCall = NoTexelCall
    /\ editor = EditorDefault
    /\ redraw = NoRedraw
    /\ helperCall = NoHelperCall
    /\ shaderCalls = {}

\* What a pool may hold under key k before the launcher is created: nothing, a
\* host image whose content is named after the key, or a declared placeholder.
ImagesAt(k) ==
    {NoImage}
    \cup {ImageOf(Host(l, k)) : l \in Layouts}
    \cup {ImageOf(LateBound(l)) : l \in Layouts}

Pools ==
    {[PoolDefault EXCEPT !.items = f] :
        f \in {g \in [PoolKeys -> UNION {ImagesAt(k) : k \in PoolKeys}] :
                  \A k \in PoolKeys : g[k] \in ImagesAt(k)}}

\* A fresh Encoder, pushed to directly.
Init ==
    /\ EncoderIdle
    /\ LauncherIdle
    /\ PlanIdle
    /\ PoolIdle
    /\ AuxIdle
    /\ phase = "idle"
    /\ execution = NoExecution

\* A Launcher just created by Program::launch for a compiled program and a pool.
LaunchInit ==
    /\ EncoderIdle
    /\ PlanIdle
    /\ PoolIdle
    /\ AuxIdle
    /\ program \in Programs(MaxOps)
    /\ pool \in Pools
    /\ pool0 = pool
    /\ launcher = ProgramLaunch(program)
    /\ bindResult = "none"
    /\ lastBind = NoBind
    /\ bound = EmptyMap
    /\ nbinds = 0
    /\ launchDevice = "none"
    /\ phase = "binding"
    /\ execution = NoExecution

(***************************************************************************)
(* Actions                                                                 *)
(***************************************************************************)
\* One call of Encoder::push.  A panic ends the run.
PushLow(low) ==
    /\ phase = "idle"
    /\ pushResult # "panic"
    /\ helperCall.res # "panic"
    /\ Len(encoder.instructions) < MaxInstr
    /\ \E r \in {Push(encoder, low)} :
           /\ encoder' = r.enc
           /\ pushResult' = r.res
    /\ lastLow' = low
    /\ UNCHANGED <<launcherVars, execution, planVars, poolVars, auxVars>>

\* One call of Launcher::bind.  bind takes the launcher by value: an Err drops
\* it, a panic ends the run.
Bind(reg, key) ==
    /\ phase = "binding"
    /\ nbinds < MaxBinds
    /\ \E r \in {LauncherBind(program, pool, launcher, reg, key)} :
           /\ pool' = r.pool
           /\ launcher' = r.launcher
           /\ bindResult' = r.res
           /\ bound' = IF r.res = "ok"
                       THEN [x \in DOMAIN bound \cup {reg} |->
                                IF x = reg THEN key ELSE bound[x]]
                       ELSE bound
           /\ phase' = CASE r.res = "ok" -> "binding"
                         [] r.res = "err" -> "dropped"
                         [] r.res = "panic" -> "aborted"
    /\ lastBind' = [reg |-> reg, key |-> key]
    /\ nbinds' = nbinds + 1
    /\ UNCHANGED <<encoderVars, program, pool0, launchDevice, execution, auxVars>>
    /\ UNCHANGED <<planVars, poolVars, auxVars>>

\* Launcher::launch, the adapter granting a device or not.
Launch(deviceOk) ==
    /\ phase = "binding"
    /\ \E r \in {LauncherLaunch(program, pool, launcher, deviceOk)} :
           /\ encoder' = r.enc
           /\ pool' = r.pool
           /\ execution' = r.execution
           /\ phase' = CASE r.res = "ok" -> "running"
                         [] r.res = "err" -> "failed"
                         [] r.res = "panic" -> "aborted"
    /\ launchDevice' = IF deviceOk THEN "ok" ELSE "refused"
    /\ UNCHANGED <<pushResult, lastLow, program, pool0, launcher, bindResult,
                   lastBind, bound, nbinds, planVars, poolVars, auxVars>>

\* Execution::step, called while is_running.
Step ==
    /\ phase = "running"
    /\ IsRunning(execution)
    /\ execution' = ExecutionStep(execution)
    /\ UNCHANGED <<encoderVars, launcherVars, planVars, poolVars, auxVars>>

\* Execution::retire_gracefully(pool): the images go back to the pool.
Retire ==
    /\ phase = "running"
    /\ ~IsRunning(execution)
    /\ pool' = execution.buffers
    /\ phase' = "retired"
    /\ UNCHANGED <<encoderVars, program, pool0, launcher, bindResult, lastBind,
                   bound, nbinds, launchDevice, execution, planVars, poolVars, auxVars>>

\* The images a pool may hold under key k before devices are requested: none,
\* host images of a small and of an oversized layout, or a declared placeholder.
DeviceImagesAt(k) ==
    { NoImage, ImageOf(Host(LayoutA, k)), ImageOf(Host(LayoutHuge, k)),
      ImageOf(LateBound(LayoutA)) }

\* The pool p on its own: nothing encoded, planned, launched or lent.
PoolAlone(p) ==
    /\ EncoderIdle
    /\ PlanIdle
    /\ PoolIdle
    /\ AuxIdle
    /\ program = EmptyProgram
    /\ pool = p
    /\ pool0 = p
    /\ launcher = ProgramLaunch(EmptyProgram)
    /\ bindResult = "none"
    /\ lastBind = NoBind
    /\ bound = EmptyMap
    /\ nbinds = 0
    /\ launchDevice = "none"
    /\ phase = "idle"
    /\ execution = NoExecution

\* A pool of images, without devices yet.
PoolInit ==
    \E p \in {[PoolDefault EXCEPT !.items = f] :
                f \in {g \in [PoolKeys -> UNION {DeviceImagesAt(k) : k \in PoolKeys}] :
                          \A k \in PoolKeys : g[k] \in DeviceImagesAt(k)}} :
       PoolAlone(p)

\* A device out of the pool, with the key select_device returned with it.
Loans == [key : GpuKeys, gpu : GpuKeys]

\* Pool::request_device
PoolRequestDevice(granted) ==
    /\ poolCall.res # "panic"
    /\ ~cache.borrowed
    /\ Cardinality(DOMAIN pool.devices) < MaxDevices
    /\ \E r \in {RequestDevice(pool, granted)} :
           /\ pool' = r.pool
           /\ poolCall' = [op |-> "request_device", res |-> r.res]
    /\ UNCHANGED <<lent, cache, extracted, encoderVars, launcherRest, execution, planVars, auxVars>>

\* Pool::select_device: a device handed out is held by the caller.
PoolSelectDevice ==
    /\ poolCall.res # "panic"
    /\ ~cache.borrowed
    /\ \E r \in {SelectDevice(pool)} :
           /\ pool' = r.pool
           /\ lent' = IF r.res = "some"
                      THEN lent \cup {[key |-> r.key, gpu |-> r.gpu]}
                      ELSE lent
           /\ poolCall' = [ op |-> "select_device", res |-> r.res,
                            target |-> SelectDeviceKey(pool) ]
    /\ UNCHANGED <<cache, extracted, encoderVars, launcherRest, execution, planVars, auxVars>>

\* Pool::reinsert_device with a device and the key select_device returned with it.
PoolReinsertDevice(l) ==
    /\ poolCall.res # "panic"
    /\ ~cache.borrowed
    /\ l \in lent
    /\ pool' = ReinsertDevice(pool, l.key, l.gpu)
    /\ lent' = lent \ {l}
    /\ poolCall' = [op |-> "reinsert_device", res |-> "ok", target |-> {l.key}]
    /\ UNCHANGED <<cache, extracted, encoderVars, launcherRest, execution, planVars, auxVars>>

\* Pool::upload
PoolUpload(img, gpu) ==
    /\ poolCall.res # "panic"
    /\ ~cache.borrowed
    /\ \E r \in {Upload(pool, img, gpu)} :
           /\ pool' = r.pool
           /\ poolCall' = [ op |-> "upload", res |-> r.res, img |-> img,
                            target |-> {gpu} ]
    /\ UNCHANGED <<lent, cache, extracted, encoderVars, launcherRest, execution, planVars, auxVars>>

\* PoolImageMut::replace_texture_unguarded on the entry of an image.
PoolReplaceTexture(img, gpu) ==
    /\ poolCall.res # "panic"
    /\ ~cache.borrowed
    /\ PoolEntry(pool, img) # NoImage
    /\ \E r \in {ReplaceTextureUnguarded(pool, img, "texture", gpu)} :
           /\ pool' = r.pool
           /\ poolCall' = [ op |-> "replace_texture_unguarded", res |-> r.res,
                            img |-> img, target |-> {gpu} ]
    /\ UNCHANGED <<lent, cache, extracted, encoderVars, launcherRest, execution, planVars, auxVars>>

\* Texel::channel_texel (also Descriptor::channel_texel) on a texel.
ChannelTexelCall(texel, channel) ==
    /\ texelCall = NoTexelCall
    /\ texelCall' = [ texel |-> texel, channel |-> channel,
                      res |-> IF ChannelTexel(texel, channel) = {} THEN "none" ELSE "some",
                      out |-> ChannelTexel(texel, channel) ]
    /\ UNCHANGED <<coreVars, editor, redraw, helperCall, shaderCalls>>

\* ModalEditor::redraw_request with the outcome of the draw
EditorRedraw(draw) ==
    /\ editor.num_frames < MaxFrames
    /\ \E r \in {RedrawRequest(editor, draw)} :
           /\ editor' = r.editor
           /\ redraw' = [draw |-> draw, lost |-> r.lost, logged |-> r.logged]
    /\ UNCHANGED <<coreVars, texelCall, helperCall, shaderCalls>>

\* ModalEditor::event: the event is logged, the editor is left as it is.
EditorEvent ==
    /\ editor.num_frames < MaxFrames
    /\ editor' = editor
    /\ redraw' = [draw |-> "event", lost |-> FALSE, logged |-> TRUE]
    /\ UNCHANGED <<coreVars, texelCall, helperCall, shaderCalls>>

\* ModalEditor::exit
Exit(ed) == ed.close_requested

\* The descriptors images are declared and inserted with: consistent ones, Yuv
\* parts under an Xyz colour, and three parts in one component.
DeclareDescriptors ==
    { [layout |-> l, texel |-> t] :
         l \in Layouts,
         t \in { TexelRgba8,
                 TexelOf("Pixel", "Rgb", "Int8x3", [model |-> "Xyz", transfer |-> "Linear"]),
                 TexelOf("Pixel", "Yuv", "Int8x3", [model |-> "Xyz", transfer |-> "Srgb"]),
                 TexelOf("Pixel", "Rgb", "Int8", [model |-> "Xyz", transfer |-> "Srgb"]) } }

\* An empty pool.
DeclareInit == PoolAlone(PoolDefault)

\* Pool::insert of a host image
PoolInsert(desc) ==
    /\ poolCall.res # "panic"
    /\ \E k \in PoolKeys : pool.items[k] = NoImage
    /\ \E r \in {Insert(pool, Host(desc.layout, "bytes"), desc)} :
           /\ pool' = r.pool
           /\ poolCall' = [op |-> "insert", res |-> "ok", key |-> r.key, desc |-> desc]
    /\ UNCHANGED <<lent, cache, extracted, encoderVars, launcherRest, execution, planVars, auxVars>>

\* Pool::declare
PoolDeclare(desc) ==
    /\ poolCall.res # "panic"
    /\ \E k \in PoolKeys : pool.items[k] = NoImage
    /\ \E r \in {Declare(pool, desc)} :
           /\ pool' = r.pool
           /\ poolCall' = [ op |-> "declare", res |-> r.res,
                            key |-> NewWithData(pool, LateBound(ToCanvas(desc)), desc).key,
                            desc |-> desc ]
    /\ UNCHANGED <<lent, cache, extracted, encoderVars, launcherRest, execution, planVars, auxVars>>

\* PoolImageMut::declare on the entry of an image
PoolImageDeclare(key, desc) ==
    /\ poolCall.res # "panic"
    /\ PoolEntry(pool, key) # NoImage
    /\ \E r \in {ImageDeclare(pool, key, desc)} :
           /\ pool' = r.pool
           /\ poolCall' = [op |-> "declare", res |-> r.res, key |-> key, desc |-> desc]
    /\ UNCHANGED <<lent, cache, extracted, encoderVars, launcherRest, execution, planVars, auxVars>>

\* A pool with one host image and two devices, without cached resources yet.
CacheInit ==
    \E p \in {[PoolDefault EXCEPT !.items[1] = ImageOf(Host(LayoutA, 1))]} :
       PoolAlone(RequestDevice(RequestDevice(p, TRUE).pool, TRUE).pool)

\* The number of resources inserted so far.
Inserted(p) ==
    (p.buffers.next - 1) + (p.textures.next - 1)
       + (p.shaders.next - 1) + (p.pipelines.next - 1)

\* Pool::insert_cacheable_*: a resource is handed to the pool; it was created
\* on the device the pool lends out, the one of the key select_device_key
\* returns.
CacheInsert(kind, desc) ==
    /\ ~cache.borrowed
    /\ Inserted(pool) < MaxCached
    /\ \E device \in SelectDeviceKey(pool) :
          pool' = InsertCacheable(pool, kind, desc,
                                  [kind |-> kind, id |-> pool[kind].next, device |-> device])
    /\ poolCall' = [op |-> "insert_cacheable", res |-> "ok"]
    /\ UNCHANGED <<lent, cache, extracted, encoderVars, launcherRest, execution, planVars, auxVars>>

\* Pool::reassign_*_gpu_unguarded
CacheReassign(kind, key, gpu) ==
    /\ ~cache.borrowed
    /\ gpu \in DOMAIN pool.devices
    /\ pool' = ReassignGpuUnguarded(pool, kind, key, gpu)
    /\ poolCall' = [op |-> "reassign_gpu_unguarded", res |-> "ok"]
    /\ UNCHANGED <<lent, cache, extracted, encoderVars, launcherRest, execution, planVars, auxVars>>

\* Pool::clear_cache
CacheClear ==
    /\ ~cache.borrowed
    /\ pool' = ClearCache(pool)
    /\ poolCall' = [op |-> "clear_cache", res |-> "ok"]
    /\ UNCHANGED <<lent, cache, extracted, encoderVars, launcherRest, execution, planVars, auxVars>>

\* Pool::as_cache: the Cache borrows the pool.
CacheBorrow(gpu) ==
    /\ ~cache.borrowed
    /\ gpu \in DOMAIN pool.devices
    /\ cache' = AsCache(pool, gpu)
    /\ poolCall' = [op |-> "as_cache", res |-> "ok"]
    /\ UNCHANGED <<pool, lent, extracted, encoderVars, launcherRest, execution, planVars, auxVars>>

\* Cache::extract_*: a resource that is returned is owned by the caller.
CacheExtract(kind, desc) ==
    /\ cache.borrowed
    /\ \E r \in {Extract(pool, cache, kind, desc)} :
           /\ pool' = r.pool
           /\ cache' = r.cache
           /\ extracted' = IF r.res = "some"
                           THEN extracted \cup {r.entry.data}
                           ELSE extracted
           /\ poolCall' = IF r.res = "some"
                          THEN [ op |-> "extract", res |-> "some", kind |-> kind,
                                 desc |-> desc, key |-> r.key, entry |-> r.entry ]
                          ELSE [ op |-> "extract", res |-> "none", kind |-> kind,
                                 desc |-> desc ]
    /\ UNCHANGED <<lent, encoderVars, launcherRest, execution, planVars, auxVars>>

\* The Cache is dropped and the pool is free again.
CacheDrop ==
    /\ cache.borrowed
    /\ cache' = NoCache
    /\ poolCall' = [op |-> "drop_cache", res |-> "ok"]
    /\ UNCHANGED <<pool, lent, extracted, encoderVars, launcherRest, execution, planVars, auxVars>>

\* The live ranges (first use .. one past the last use) handed to allocate_for.
LiveRanges ==
    {r \in [start : 0..(MaxRegs - 1), end : 1..MaxRegs] : r.start < r.end}

\* One call of ImageBufferPlan::allocate_for; the live range is not looked at.
PlanAllocate(desc, range) ==
    /\ Len(bufferPlan.by_register) < MaxRegs
    /\ bufferPlan' = AllocateFor(bufferPlan, desc)
    /\ ranges' = Append(ranges, range)
    /\ UNCHANGED <<planCall, encoderVars, launcherVars, execution, poolVars, auxVars>>

\* One call of ImageBufferPlan::get.
PlanLookup(idx) ==
    /\ planCall' = [ idx |-> idx,
                     res |-> PlanGet(bufferPlan, idx).res,
                     planned |-> Len(bufferPlan.by_register) ]
    /\ UNCHANGED <<bufferPlan, ranges, encoderVars, launcherVars, execution, poolVars, auxVars>>

\* The encoder can take another call: no panic ended the run, and the
\* instruction list is within the bound.
EncoderReady ==
    /\ phase = "idle"
    /\ pushResult # "panic"
    /\ helperCall.res # "panic"
    /\ Len(encoder.instructions) < MaxInstr

\* Encoder::set_buffer_plan on a fresh encoder, as Launcher::launch calls it.
SetBufferPlan(plan) ==
    /\ EncoderReady
    /\ encoder = EncoderDefault
    /\ encoder' = [encoder EXCEPT !.buffer_plan = plan]
    /\ helperCall' = [op |-> "set_buffer_plan", res |-> "ok", val |-> {}]
    /\ pushResult' = "none"
    /\ lastLow' = NoLow
    /\ UNCHANGED <<launcherVars, execution, planVars, poolVars, texelCall, editor,
                   redraw, shaderCalls>>

\* One call of Encoder::texture_view.
CallTextureView(texture) ==
    /\ EncoderReady
    /\ \E r \in {TextureView(encoder, [texture |-> texture])} :
           /\ encoder' = r.enc
           /\ helperCall' = [op |-> "texture_view", res |-> "ok", val |-> {r.val}]
    /\ pushResult' = "none"
    /\ lastLow' = NoLow
    /\ UNCHANGED <<launcherVars, execution, planVars, poolVars, texelCall, editor,
                   redraw, shaderCalls>>

\* One call of Encoder::make_paint_group.
CallMakePaintGroup ==
    /\ EncoderReady
    /\ \E r \in {MakePaintGroup(encoder)} :
           /\ encoder' = r.enc
           /\ helperCall' = [op |-> "make_paint_group", res |-> "ok", val |-> {r.val}]
    /\ pushResult' = "none"
    /\ lastLow' = NoLow
    /\ UNCHANGED <<launcherVars, execution, planVars, poolVars, texelCall, editor,
                   redraw, shaderCalls>>

\* One call of Encoder::make_paint_layout.
CallMakePaintLayout ==
    /\ EncoderReady
    /\ \E r \in {MakePaintLayout(encoder)} :
           /\ encoder' = r.enc
           /\ helperCall' = [op |-> "make_paint_layout", res |-> "ok", val |-> {r.val}]
    /\ pushResult' = "none"
    /\ lastLow' = NoLow
    /\ UNCHANGED <<launcherVars, execution, planVars, poolVars, texelCall, editor,
                   redraw, shaderCalls>>

\* One call of Encoder::simple_quad_buffer.
CallSimpleQuadBuffer ==
    /\ EncoderReady
    /\ \E r \in {SimpleQuadBuffer(encoder)} :
           /\ encoder' = r.enc
           /\ helperCall' = [op |-> "simple_quad_buffer", res |-> "ok", val |-> {r.val}]
    /\ pushResult' = "none"
    /\ lastLow' = NoLow
    /\ UNCHANGED <<launcherVars, execution, planVars, poolVars, texelCall, editor,
                   redraw, shaderCalls>>

\* The index a fallible helper returned, if it returned one.
ValOf(r) == IF r.res = "ok" THEN {r.val} ELSE {}

\* The keyed shader calls after one more: the first Ok of a key is recorded.
Recorded(calls, stage, kind, r) ==
    IF r.res = "ok" /\ kind # {}
       /\ ~\E c \in calls : c.stage = stage /\ c.key = Some(kind)
    THEN calls \cup {[stage |-> stage, key |-> Some(kind), val |-> r.val]}
    ELSE calls

\* One call of Encoder::fragment_shader.
CallFragmentShader(kind) ==
    /\ EncoderReady
    /\ \E r \in {FragmentShader(encoder, kind, "FRAG_COPY")} :
           /\ encoder' = r.enc
           /\ helperCall' = [ op |-> "fragment_shader", kind |-> kind,
                              res |-> r.res, val |-> ValOf(r) ]
           /\ shaderCalls' = Recorded(shaderCalls, "fragment", kind, r)
    /\ pushResult' = "none"
    /\ lastLow' = NoLow
    /\ UNCHANGED <<launcherVars, execution, planVars, poolVars, texelCall, editor, redraw>>

\* One call of Encoder::vertex_shader.
CallVertexShader(kind) ==
    /\ EncoderReady
    /\ \E r \in {VertexShader(encoder, kind, "VERT_NOOP")} :
           /\ encoder' = r.enc
           /\ helperCall' = [ op |-> "vertex_shader", kind |-> kind,
                              res |-> r.res, val |-> ValOf(r) ]
           /\ shaderCalls' = Recorded(shaderCalls, "vertex", kind, r)
    /\ pushResult' = "none"
    /\ lastLow' = NoLow
    /\ UNCHANGED <<launcherVars, execution, planVars, poolVars, texelCall, editor, redraw>>

\* One call of Encoder::simple_render_pipeline.
CallSimpleRenderPipeline(vertex, fragment) ==
    /\ EncoderReady
    /\ \E r \in {SimpleRenderPipeline(encoder, vertex, fragment)} :
           /\ encoder' = r.enc
           /\ helperCall' = [ op |-> "simple_render_pipeline",
                              res |-> r.res, val |-> ValOf(r) ]
    /\ pushResult' = "none"
    /\ lastLow' = NoLow
    /\ UNCHANGED <<launcherVars, execution, planVars, poolVars, texelCall, editor,
                   redraw, shaderCalls>>

\* One call of Encoder::allocate_register.
CallAllocateRegister(idx) ==
    /\ EncoderReady
    /\ \E r \in {AllocateRegister(encoder, idx)} :
           /\ encoder' = r.enc
           /\ helperCall' = [ op |-> "allocate_register", idx |-> idx,
                              res |-> r.res, val |-> {} ]
    /\ pushResult' = "none"
    /\ lastLow' = NoLow
    /\ UNCHANGED <<launcherVars, execution, planVars, poolVars, texelCall, editor,
                   redraw, shaderCalls>>

\* The bytes_per_row computation of allocate_register on a layout.
CallBytesPerRow(layout) ==
    /\ EncoderReady
    /\ helperCall' = [ op |-> "bytes_per_row", layout |-> layout,
                       res |-> IF BytesPerRow(layout) = {} THEN "err" ELSE "ok",
                       val |-> BytesPerRow(layout) ]
    /\ pushResult' = "none"
    /\ lastLow' = NoLow
    /\ UNCHANGED <<encoder, launcherVars, execution, planVars, poolVars, texelCall,
                   editor, redraw, shaderCalls>>

\* The lowering of one High::Paint op by Launcher::launch.
Paint(high) ==
    /\ EncoderReady
    /\ \E r \in {LowerPaint(encoder, high)} :
           /\ encoder' = r.enc
           /\ helperCall' = [op |-> "paint", high |-> high, res |-> r.res, val |-> {}]
    /\ pushResult' = "none"
    /\ lastLow' = NoLow
    /\ UNCHANGED <<launcherVars, execution, planVars, poolVars, texelCall, editor,
                   redraw, shaderCalls>>

(***************************************************************************)
(* Specifications                                                          *)
(***************************************************************************)
Next == \E low \in LowInputs : PushLow(low)

\* The encoder under arbitrary pushes.
Spec == Init /\ [][Next]_vars

LaunchNext ==
    \/ \E reg \in 0..MaxOps, key \in PoolKeys \cup {NullKey} : Bind(reg, key)
    \/ \E deviceOk \in BOOLEAN : Launch(deviceOk)
    \/ Retire

\* A launcher under arbitrary binds, then launch and retire.
LaunchSpec == LaunchInit /\ [][LaunchNext]_vars

PlanNext ==
    \/ \E l \in Layouts, range \in LiveRanges : PlanAllocate(DescriptorOf(l), range)
    \/ \E idx \in 0..MaxRegs : PlanLookup(idx)

\* A plan built by arbitrary allocate_for calls and queried by get.
PlanSpec == Init /\ [][PlanNext]_vars

PoolNext ==
    \/ \E granted \in BOOLEAN : PoolRequestDevice(granted)
    \/ PoolSelectDevice
    \/ \E l \in Loans : PoolReinsertDevice(l)
    \/ \E img \in PoolKeys \cup {NullKey}, gpu \in GpuKeys : PoolUpload(img, gpu)
    \/ \E img \in PoolKeys, gpu \in GpuKeys : PoolReplaceTexture(img, gpu)

\* A pool whose devices are requested, lent out, given back and uploaded to.
PoolSpec == PoolInit /\ [][PoolNext]_vars

TexelNext ==
    \E block \in Blocks, parts \in SampleParts, bits \in SampleBits,
       color \in Colors, channel \in ColorChannels :
          ChannelTexelCall(TexelOf(block, parts, bits, color), channel)

\* channel_texel applied to every texel and channel.
TexelSpec == Init /\ [][TexelNext]_vars

\* The instructions pushed between the calls of the helpers.
HelperLows ==
    { [op |-> "BeginCommands"], [op |-> "EndCommands"], [op |-> "Buffer"] }

\* The plans an encoder is given: none, or one image in register 0.
HelperPlans == {EmptyPlan, CompileInput(EmptyProgram, LayoutA).textures}

\* The Paint ops lowered: onto a discarded or a loaded target.
PaintOps == {HighPaint(0, target, 1, "Copy") : target \in {"Discard", "Load"}}

HelperNext ==
    \/ \E low \in HelperLows : PushLow(low)
    \/ \E plan \in HelperPlans : SetBufferPlan(plan)
    \/ \E texture \in {1} : CallTextureView(texture)
    \/ CallMakePaintGroup
    \/ CallMakePaintLayout
    \/ CallSimpleQuadBuffer
    \/ \E kind \in {{}} \cup {{k} : k \in FragmentShaderKeys} : CallFragmentShader(kind)
    \/ \E kind \in {{}} \cup {{k} : k \in VertexShaderKeys} : CallVertexShader(kind)
    \/ \E vertex \in {0}, fragment \in {1} : CallSimpleRenderPipeline(vertex, fragment)
    \/ \E idx \in 0..1 : CallAllocateRegister(idx)
    \/ \E high \in PaintOps : Paint(high)

\* An encoder under pushes and calls of its helpers.
HelperSpec == Init /\ [][HelperNext]_vars

\* The layouts whose rows are measured: short rows, rows at and around the
\* alignment, and rows at and beyond the width of the row type.
RowLayouts ==
    { [width |-> w, height |-> 1, bytes_per_texel |-> b] :
         w \in {1, 64, 255, 256, 257, 1023, 1024, 2 ^ RowBits - 1}, b \in {1, 4, 8} }

\* The plans with one image of such a layout in register 0.
RowPlans == {CompileInput(EmptyProgram, l).textures : l \in RowLayouts}

RowNext ==
    \/ \E plan \in RowPlans : SetBufferPlan(plan)
    \/ \E idx \in 0..1 : CallAllocateRegister(idx)
    \/ \E l \in RowLayouts : CallBytesPerRow(l)

\* An encoder given a plan and asked to allocate its register.
RowSpec == Init /\ [][RowNext]_vars

\* The resources pushed next to the helpers: the kinds no helper emits, a
\* Buffer, and the BeginCommands a shader needs.
CounterLows ==
    { [op |-> o] : o \in {"Texture", "Sampler", "BindGroup", "RenderPipeline",
                          "Buffer", "BeginCommands"} }

CounterNext ==
    \/ \E low \in CounterLows : PushLow(low)
    \/ \E texture \in {0} : CallTextureView(texture)
    \/ CallMakePaintLayout
    \/ CallSimpleQuadBuffer
    \/ \E kind \in {{k} : k \in VertexShaderKeys} : CallVertexShader(kind)

\* An encoder whose resources are emitted by pushes and by helpers.
CounterSpec == Init /\ [][CounterNext]_vars

EditorNext ==
    \/ \E draw \in DrawOutcomes : EditorRedraw(draw)
    \/ EditorEvent

\* The editor answering redraw requests.
EditorSpec == Init /\ [][EditorNext]_vars

DeclareNext ==
    \/ \E desc \in DeclareDescriptors : PoolInsert(desc)
    \/ \E desc \in DeclareDescriptors : PoolDeclare(desc)
    \/ \E key \in PoolKeys, desc \in DeclareDescriptors : PoolImageDeclare(key, desc)

\* A pool whose images are inserted, declared and declared anew.
DeclareSpec == DeclareInit /\ [][DeclareNext]_vars

CacheNext ==
    \/ \E kind \in CacheKinds, desc \in CacheDescriptors : CacheInsert(kind, desc)
    \/ \E kind \in CacheKinds, key \in 1..MaxCached, gpu \in GpuKeys :
          CacheReassign(kind, key, gpu)
    \/ CacheClear
    \/ \E gpu \in GpuKeys : CacheBorrow(gpu)
    \/ \E kind \in CacheKinds, desc \in CacheDescriptors : CacheExtract(kind, desc)
    \/ CacheDrop

\* A pool whose cache is filled, reassigned, cleared, indexed and extracted from.
CacheSpec == CacheInit /\ [][CacheNext]_vars

RECURSIVE AcceptedEncoders(_)
\* The encoders reached by at most n accepted pushes on a fresh encoder.
AcceptedEncoders(n) ==
    IF n = 0
    THEN {EncoderDefault}
    ELSE LET shorter == AcceptedEncoders(n - 1)
         IN  shorter
             \cup {Push(e, low).enc : e \in shorter,
                                      low \in {l \in LowInputs : l.op # "SetPipeline"}}

\* An Execution created over an instruction list the encoder accepted.
ExecInit ==
    /\ EncoderIdle
    /\ LauncherIdle
    /\ PlanIdle
    /\ PoolIdle
    /\ AuxIdle
    /\ phase = "running"
    /\ execution \in {ExecutionNew(e.instructions, PoolDefault) :
                        e \in AcceptedEncoders(MaxStream)}

ExecNext == Step \/ Retire

\* The client loop `while is_running() { step() }` keeps calling step.
ExecSpec == ExecInit /\ [][ExecNext]_vars /\ WF_vars(Step)

(***************************************************************************)
(* Properties of the encoder's instruction stream                          *)
(***************************************************************************)
RECURSIVE Consumed(_, _)
\* Command buffers consumed by the first p instructions of s: one per
\* RunTopCommand, n per RunTopToBot(n) or RunBotToTop(n).
Consumed(s, p) ==
    IF p = 0
    THEN 0
    ELSE Consumed(s, p - 1)
         + (CASE s[p].op = "RunTopCommand" -> 1
              [] s[p].op \in {"RunTopToBot", "RunBotToTop"} -> s[p].num
              [] OTHER -> 0)

\* EndCommands among the first p instructions of s.
Ended(s, p) == Cardinality({i \in 1..p : s[i].op = "EndCommands"})

\* C1: in every accepted stream each EndRenderPass is preceded by a
\* BeginRenderPass with no BeginCommands and no EndCommands between the two.
C1_EndRenderPassClosesItsPass ==
    LET s == encoder.instructions
    IN  \A j \in DOMAIN s :
            s[j].op = "EndRenderPass" =>
                \E i \in 1..(j - 1) :
                    /\ s[i].op = "BeginRenderPass"
                    /\ \A k \in (i + 1)..(j - 1) :
                           s[k].op \notin {"BeginCommands", "EndCommands"}

\* C2: at every prefix of the accepted stream the command buffers consumed
\* never exceed the EndCommands emitted, and the commands counter is their
\* difference, so it never under-runs.
C2_NoCommandUnderrun ==
    LET s == encoder.instructions
    IN  /\ \A p \in 0..Len(s) : Consumed(s, p) <= Ended(s, p)
        /\ encoder.commands = Ended(s, Len(s)) - Consumed(s, Len(s))
        /\ encoder.commands >= 0

\* C2 witness: the one completed command buffer was run, and a further
\* RunTopCommand on the empty command list was rejected.
C2_Witness ==
    /\ pushResult = "err"
    /\ lastLow.op = "RunTopCommand"
    /\ encoder.commands = 0
    /\ \E i \in DOMAIN encoder.instructions : encoder.instructions[i].op = "RunTopCommand"

\* C24: push(EndCommands) is accepted exactly when the encoder is inside a
\* command encoder and not inside a render pass; when accepted it clears the
\* command-encoder flag and increments commands by one.
C24_EndCommandsOutsidePassOnly ==
    [][lastLow'.op = "EndCommands" =>
          /\ pushResult' = "ok" <=>
                (encoder.is_in_command_encoder /\ ~encoder.is_in_render_pass)
          /\ pushResult' = "ok" =>
                /\ ~encoder'.is_in_command_encoder
                /\ encoder'.commands = encoder.commands + 1]_vars

\* C25: push(RunTopToBot(n)) and push(RunBotToTop(n)) are accepted exactly when
\* n <= commands, n = commands included, and when accepted reduce commands by n.
C25_RunManyUpToAllCommands ==
    [][lastLow'.op \in {"RunTopToBot", "RunBotToTop"} =>
          /\ pushResult' = "ok" <=> lastLow'.num <= encoder.commands
          /\ pushResult' = "ok" =>
                encoder'.commands = encoder.commands - lastLow'.num]_vars

(***************************************************************************)
(* Properties of the encoder's helpers                                     *)
(***************************************************************************)
\* What push validates and counts: the flags, the counters, the list.
PushState(e) ==
    [ instructions |-> e.instructions,
      bind_groups |-> e.bind_groups,
      bind_group_layouts |-> e.bind_group_layouts,
      buffers |-> e.buffers,
      pipeline_layouts |-> e.pipeline_layouts,
      render_pipelines |-> e.render_pipelines,
      sampler |-> e.sampler,
      shaders |-> e.shaders,
      textures |-> e.textures,
      texture_views |-> e.texture_views,
      is_in_command_encoder |-> e.is_in_command_encoder,
      is_in_render_pass |-> e.is_in_render_pass,
      commands |-> e.commands ]

RECURSIVE PushAll(_, _, _), PushOn(_, _, _)
\* lows[i..] pushed one after the other, stopping at the first refusal.
PushAll(e, lows, i) ==
    IF i > Len(lows) THEN Ok(e) ELSE PushOn(Push(e, lows[i]), lows, i + 1)

\* The pushes go on when the one before was accepted.
PushOn(r, lows, i) == IF r.res # "ok" THEN r ELSE PushAll(r.enc, lows, i)

\* The instructions a step appended to the list s, which became t.
Emitted(s, t) == SubSeq(t, Len(s) + 1, Len(t))

StageOf(op) == IF op = "fragment_shader" THEN "fragment" ELSE "vertex"

\* The keyed shader calls of the stage and key of a call that returned Ok before.
EarlierCalls(calls, call) ==
    {c \in calls : c.stage = StageOf(call.op) /\ c.key = Some(call.kind)}

\* C27: a fragment_shader or vertex_shader call with a key an earlier successful
\* call used returns the index of that call and emits nothing; a call with a new
\* key that succeeds emits exactly one Shader and returns the shaders counter.
C27_OneShaderPerKey ==
    [][(/\ lastLow' = NoLow
        /\ helperCall'.op \in {"fragment_shader", "vertex_shader"}
        /\ helperCall'.kind # {}) =>
          IF EarlierCalls(shaderCalls, helperCall') # {}
          THEN /\ helperCall'.res = "ok"
               /\ \A c \in EarlierCalls(shaderCalls, helperCall') :
                     helperCall'.val = {c.val}
               /\ encoder'.instructions = encoder.instructions
          ELSE helperCall'.res = "ok" =>
                  /\ Len(encoder'.instructions) = Len(encoder.instructions) + 1
                  /\ encoder'.instructions[Len(encoder'.instructions)].op = "Shader"
                  /\ helperCall'.val = {encoder.shaders}]_vars

\* Where the instructions of the kinds ops stand in the list.
Positions(instrs, ops) == {i \in DOMAIN instrs : instrs[i].op \in ops}

\* The index of the resource the instruction at position i creates: the number
\* of resources of its counter created before it.
IndexAt(instrs, ops, i) == Cardinality({j \in Positions(instrs, ops) : j < i})

\* C28: at most one paint BindGroupLayout, one PipelineLayout and one quad
\* BufferInit are in the list; the BindGroupLayout stands before the
\* PipelineLayout, whose only entry is the index of the BindGroupLayout; and a
\* call of make_paint_group, make_paint_layout or simple_quad_buffer returns
\* the index its resource got when it was emitted.
C28_PaintResourcesEmittedOnce ==
    /\ Cardinality(Positions(encoder.instructions, {"BindGroupLayout"})) <= 1
    /\ Cardinality(Positions(encoder.instructions, {"PipelineLayout"})) <= 1
    /\ Cardinality(Positions(encoder.instructions, {"BufferInit"})) <= 1
    /\ \A i \in Positions(encoder.instructions, {"PipelineLayout"}) :
          \E g \in Positions(encoder.instructions, {"BindGroupLayout"}) :
             /\ g < i
             /\ encoder.instructions[i].bind_group_layouts
                   = << IndexAt(encoder.instructions, {"BindGroupLayout"}, g) >>
    /\ (lastLow = NoLow /\ helperCall.op = "make_paint_group") =>
          \E g \in Positions(encoder.instructions, {"BindGroupLayout"}) :
             helperCall.val = {IndexAt(encoder.instructions, {"BindGroupLayout"}, g)}
    /\ (lastLow = NoLow /\ helperCall.op = "make_paint_layout") =>
          \E i \in Positions(encoder.instructions, {"PipelineLayout"}) :
             helperCall.val = {IndexAt(encoder.instructions, {"PipelineLayout"}, i)}
    /\ (lastLow = NoLow /\ helperCall.op = "simple_quad_buffer") =>
          \E q \in Positions(encoder.instructions, {"BufferInit"}) :
             helperCall.val
                = {IndexAt(encoder.instructions, {"Buffer", "BufferInit"}, q)}

\* simple_quad_buffer returned the index 1 of a quad emitted by an earlier
\* call, after the paint layout was made.
C28_Witness ==
    /\ lastLow = NoLow
    /\ helperCall.op = "simple_quad_buffer"
    /\ helperCall.val = {1}
    /\ encoder.instructions[Len(encoder.instructions)].op # "BufferInit"
    /\ Positions(encoder.instructions, {"PipelineLayout"}) # {}

\* An encoder between two ops of a launch: outside a command encoder and a
\* render pass, every command buffer run.
BetweenOps(e) ==
    /\ ~e.is_in_command_encoder
    /\ ~e.is_in_render_pass
    /\ e.commands = 0

\* The pass of one Paint op in the instructions a step appended: the view of
\* the target, BeginCommands, BeginRenderPass with the target's load-op, and at
\* the end the quad bound and drawn, the pass and the commands ended and run.
PaintPassIn(added, high, quad) ==
    /\ Len(added) >= 8
    /\ \E v \in DOMAIN added :
          /\ v + 2 <= Len(added) - 5
          /\ added[v].op = "TextureView"
          /\ added[v].descriptor.texture = high.dst.texture
          /\ added[v + 1].op = "BeginCommands"
          /\ added[v + 2].op = "BeginRenderPass"
          /\ added[v + 2].color_attachments[1].ops.load
                = (IF high.dst.target = "Discard" THEN "ClearTransparent" ELSE "Load")
    /\ added[Len(added) - 4].op = "SetVertexBuffer"
    /\ added[Len(added) - 4].buffer = quad
    /\ added[Len(added) - 3] = [op |-> "DrawOnce", vertices |-> 6]
    /\ added[Len(added) - 2].op = "EndRenderPass"
    /\ added[Len(added) - 1].op = "EndCommands"
    /\ added[Len(added)].op = "RunTopCommand"

\* C29: lowering one Paint op emits the view of the target, BeginCommands,
\* BeginRenderPass with the target's load-op, render instructions that end in
\* SetVertexBuffer on the quad and DrawOnce of 6 vertices, EndRenderPass,
\* EndCommands and RunTopCommand, and leaves the encoder outside a command
\* encoder and a render pass with no command buffer left to run.
C29_PaintEmitsOnePass ==
    [][(/\ lastLow' = NoLow
        /\ helperCall'.op = "paint"
        /\ BetweenOps(encoder)) =>
          /\ helperCall'.res = "ok"
          /\ encoder'.simple_quad_buffer # {}
          /\ PaintPassIn(Emitted(encoder.instructions, encoder'.instructions),
                         helperCall'.high, Some(encoder'.simple_quad_buffer))
          /\ BetweenOps(encoder')]_vars

\* C30: allocate_register(r) fails and emits nothing when the plan has no
\* assignment for r; emits nothing and keeps the mapping when r is mapped; and
\* otherwise emits one Buffer and one Texture and maps r to their indices.
C30_AllocateRegisterOnce ==
    [][(lastLow' = NoLow /\ helperCall'.op = "allocate_register") =>
          IF PlanGet(encoder.buffer_plan, helperCall'.idx).res # "ok"
          THEN /\ helperCall'.res = "err"
               /\ encoder'.instructions = encoder.instructions
          ELSE IF helperCall'.idx \in DOMAIN encoder.register_map
          THEN /\ helperCall'.res = "ok"
               /\ encoder' = encoder
          ELSE /\ helperCall'.res = "ok"
               /\ Len(Emitted(encoder.instructions, encoder'.instructions)) = 2
               /\ Emitted(encoder.instructions, encoder'.instructions)[1].op = "Buffer"
               /\ Emitted(encoder.instructions, encoder'.instructions)[2].op = "Texture"
               /\ helperCall'.idx \in DOMAIN encoder'.register_map
               /\ encoder'.register_map[helperCall'.idx].buffer = encoder.buffers
               /\ encoder'.register_map[helperCall'.idx].texture = encoder.textures]_vars

\* The least multiple of the row alignment that holds a row of the layout.
AlignedRow(layout) ==
    ((layout.width * layout.bytes_per_texel + RowAlign - 1) \div RowAlign) * RowAlign

\* The descriptor the plan of the encoder assigns to a register.
PlannedDescriptor(e, idx) ==
    e.buffer_plan.texture[PlanGet(e.buffer_plan, idx).val.texture + 1]

\* C31: the row stride of a register's buffer is the least multiple of 256 not
\* below width * bytes_per_texel, and allocate_register returns a LaunchError,
\* emitting nothing, when that stride does not fit the row type; no stride is
\* a wrapped-around value.
C31_RowStrideAlignedOrError ==
    [][/\ (/\ lastLow' = NoLow
            /\ helperCall'.op = "allocate_register"
            /\ PlanGet(encoder.buffer_plan, helperCall'.idx).res = "ok"
            /\ helperCall'.idx \notin DOMAIN encoder.register_map) =>
              IF AlignedRow(PlannedDescriptor(encoder, helperCall'.idx).layout)
                    >= 2 ^ RowBits
              THEN /\ helperCall'.res = "err"
                   /\ encoder'.instructions = encoder.instructions
              ELSE helperCall'.res = "ok" =>
                      encoder'.register_map[helperCall'.idx].buffer_layout.bytes_per_row
                         = AlignedRow(PlannedDescriptor(encoder, helperCall'.idx).layout)
       /\ (lastLow' = NoLow /\ helperCall'.op = "bytes_per_row") =>
              helperCall'.val
                 = (IF AlignedRow(helperCall'.layout) >= 2 ^ RowBits
                    THEN {}
                    ELSE {AlignedRow(helperCall'.layout)})]_vars

\* Every SetBindGroup and SetVertexBuffer of the list names a bind group or a
\* buffer created before it.
IndicesCreated(instrs) ==
    \A i \in DOMAIN instrs :
       /\ instrs[i].op = "SetBindGroup" =>
             instrs[i].group < IndexAt(instrs, {"BindGroup"}, i)
       /\ instrs[i].op = "SetVertexBuffer" =>
             instrs[i].buffer < IndexAt(instrs, {"Buffer", "BufferInit"}, i)

\* C32: push accepts SetBindGroup{group} exactly when group is below the number
\* of BindGroup instructions in the list, and SetVertexBuffer{buffer} exactly
\* when buffer is below the number of Buffer and BufferInit instructions, so
\* every such instruction in the list names a resource created before it.
C32_SetIndicesCreatedBefore ==
    [][/\ lastLow'.op = "SetBindGroup" =>
             (pushResult' = "ok" <=>
                 lastLow'.group
                    < Cardinality(Positions(encoder.instructions, {"BindGroup"})))
       /\ lastLow'.op = "SetVertexBuffer" =>
             (pushResult' = "ok" <=>
                 lastLow'.buffer
                    < Cardinality(Positions(encoder.instructions, {"Buffer", "BufferInit"})))
       /\ IndicesCreated(encoder'.instructions)]_vars

\* SetVertexBuffer on the second buffer was accepted, and SetBindGroup on a
\* bind group not yet created was refused before.
C32_Witness ==
    /\ lastLow = [op |-> "SetVertexBuffer", buffer |-> 1]
    /\ pushResult = "ok"
    /\ encoder.instructions[Len(encoder.instructions)] = lastLow
    /\ encoder.bind_groups = 1
    /\ \E i \in DOMAIN encoder.instructions : encoder.instructions[i].op = "SetBindGroup"

\* The kind of the last instruction of the kinds ops before position i: the
\* empty set when there is none.
LastBefore(instrs, ops, i) ==
    { instrs[j].op : j \in { k \in Positions(instrs, ops) :
                                /\ k < i
                                /\ \A l \in Positions(instrs, ops) : l < i => l <= k } }

\* BeginCommands and EndCommands alternate in the list, BeginCommands first.
CommandsAlternate(instrs) ==
    \A i \in Positions(instrs, {"BeginCommands", "EndCommands"}) :
       IF instrs[i].op = "BeginCommands"
       THEN LastBefore(instrs, {"BeginCommands", "EndCommands"}, i) \subseteq {"EndCommands"}
       ELSE LastBefore(instrs, {"BeginCommands", "EndCommands"}, i) = {"BeginCommands"}

\* C33: push(BeginCommands) is accepted exactly when no command encoder is
\* open, and then sets the flag; BeginCommands and EndCommands alternate in
\* the list, starting with BeginCommands.
C33_BeginCommandsAlternates ==
    [][/\ lastLow'.op = "BeginCommands" =>
             /\ pushResult' = "ok" <=> ~encoder.is_in_command_encoder
             /\ pushResult' = "ok" => encoder'.is_in_command_encoder
       /\ CommandsAlternate(encoder'.instructions)]_vars

\* A BeginCommands was refused inside the second command encoder of the list.
C33_Witness ==
    /\ lastLow.op = "BeginCommands"
    /\ pushResult = "err"
    /\ Cardinality(Positions(encoder.instructions, {"BeginCommands"})) = 2
    /\ Cardinality(Positions(encoder.instructions, {"EndCommands"})) = 1

\* No render pass begins inside another, and each begins inside a command
\* encoder: the last BeginRenderPass or EndRenderPass before it, if any, is an
\* EndRenderPass, and the last BeginCommands or EndCommands before it is a
\* BeginCommands.
PassesInsideCommands(instrs) ==
    \A i \in Positions(instrs, {"BeginRenderPass"}) :
       /\ LastBefore(instrs, {"BeginRenderPass", "EndRenderPass"}, i)
             \subseteq {"EndRenderPass"}
       /\ LastBefore(instrs, {"BeginCommands", "EndCommands"}, i) = {"BeginCommands"}

\* C34: push(BeginRenderPass) is accepted exactly when a command encoder is
\* open and no render pass is open, and then sets the render-pass flag; render
\* passes do not nest, and each BeginRenderPass stands after a BeginCommands
\* whose EndCommands is not yet in the list.
C34_RenderPassInsideCommands ==
    [][/\ lastLow'.op = "BeginRenderPass" =>
             /\ pushResult' = "ok" <=>
                   (encoder.is_in_command_encoder /\ ~encoder.is_in_render_pass)
             /\ pushResult' = "ok" => encoder'.is_in_render_pass
       /\ PassesInsideCommands(encoder'.instructions)]_vars

\* A second render pass was begun in the command encoder after the first was
\* ended.
C34_Witness ==
    /\ lastLow.op = "BeginRenderPass"
    /\ pushResult = "ok"
    /\ encoder.instructions[Len(encoder.instructions)] = lastLow
    /\ Cardinality(Positions(encoder.instructions, {"BeginRenderPass"})) = 2
    /\ Cardinality(Positions(encoder.instructions, {"EndRenderPass"})) = 1

\* C35: every return of upload, failing ones included, leaves each device
\* slot in the state, Active or Inactive, it had when upload was called.
C35_UploadKeepsDeviceSlots ==
    [][poolCall'.op = "upload" =>
          /\ DOMAIN pool'.devices = DOMAIN pool.devices
          /\ \A k \in DOMAIN pool.devices : pool'.devices[k] = pool.devices[k]]_vars

\* C36: image data moved out of the pool by bind is never lost: once a later
\* bind or launch has returned an error, every pool key bound before holds its
\* original image data again, not a LateBound placeholder.
C36_FailedLaunchRestoresImages ==
    phase \in {"dropped", "failed"} =>
        \A r \in DOMAIN bound : pool.items[bound[r]].data = pool0.items[bound[r]].data

\* The number of instructions of the given kinds in a list.
CountOf(instrs, ops) == Cardinality(Positions(instrs, ops))

\* Each resource counter of an encoder is the number of instructions of its
\* kind in the instruction list.
CountersMatch(e) ==
    /\ e.buffers = CountOf(e.instructions, {"Buffer", "BufferInit"})
    /\ e.textures = CountOf(e.instructions, {"Texture"})
    /\ e.texture_views = CountOf(e.instructions, {"TextureView"})
    /\ e.shaders = CountOf(e.instructions, {"Shader"})
    /\ e.bind_group_layouts = CountOf(e.instructions, {"BindGroupLayout"})
    /\ e.pipeline_layouts = CountOf(e.instructions, {"PipelineLayout"})
    /\ e.render_pipelines = CountOf(e.instructions, {"RenderPipeline"})
    /\ e.bind_groups = CountOf(e.instructions, {"BindGroup"})
    /\ e.sampler = CountOf(e.instructions, {"Sampler"})

\* The kind of instruction a helper emits, and the kinds its counter counts.
HelperKind(op) ==
    CASE op = "texture_view" -> {"TextureView"}
      [] op \in {"fragment_shader", "vertex_shader"} -> {"Shader"}
      [] op = "make_paint_group" -> {"BindGroupLayout"}
      [] op = "make_paint_layout" -> {"PipelineLayout"}
      [] op = "simple_quad_buffer" -> {"BufferInit"}
      [] op = "simple_render_pipeline" -> {"RenderPipeline"}
      [] OTHER -> {}

HelperCounted(op) ==
    IF op = "simple_quad_buffer" THEN {"Buffer", "BufferInit"} ELSE HelperKind(op)

\* C37: after any sequence of pushes and helper calls each resource counter
\* equals the number of instructions of its kind in the list, and the index a
\* helper returned is the position of an emitted resource of the helper's kind
\* among the resources its counter counts.
C37_CountersCountInstructions ==
    /\ CountersMatch(encoder)
    /\ (/\ lastLow = NoLow
        /\ HelperKind(helperCall.op) # {}
        /\ helperCall.val # {}) =>
          \E i \in Positions(encoder.instructions, HelperKind(helperCall.op)) :
             helperCall.val
                = {IndexAt(encoder.instructions, HelperCounted(helperCall.op), i)}

\* simple_quad_buffer returned index 1 for its quad, emitted after a pushed
\* Buffer, a pushed Texture, a texture view made by its helper and one more
\* resource.
C37_Witness ==
    /\ lastLow = NoLow
    /\ helperCall.op = "simple_quad_buffer"
    /\ helperCall.val = {1}
    /\ encoder.buffers = 2
    /\ encoder.textures = 1
    /\ encoder.texture_views = 1
    /\ encoder.shaders + encoder.sampler + encoder.bind_groups = 1

\* C38: every TextureView a lowered Paint op emits refers to a device texture
\* index smaller than the number of Texture instructions before it, and that
\* index is the device texture the encoder mapped to the Paint destination.
C38_PaintViewsDeviceTexture ==
    [][(lastLow' = NoLow /\ helperCall'.op = "paint") =>
          \A i \in Positions(encoder'.instructions, {"TextureView"}) :
             i > Len(encoder.instructions) =>
                /\ encoder'.instructions[i].descriptor.texture
                      < IndexAt(encoder'.instructions, {"Texture"}, i)
                /\ helperCall'.high.dst.texture \in DOMAIN encoder'.texture_map
                /\ encoder'.instructions[i].descriptor.texture
                      = encoder'.texture_map[helperCall'.high.dst.texture]]_vars

\* The keys of the device slots that hold a device.
ActiveKeys(p) == {k \in DOMAIN p.devices : p.devices[k] # Inactive}

\* C39: select_device returns a device whenever some slot of the pool is
\* Active, whatever the state of the other slots; it returns none only when no
\* slot is Active, and a call that returns none changes no slot.
C39_SelectFindsActiveDevice ==
    [][poolCall'.op = "select_device" =>
          /\ ActiveKeys(pool) # {} => poolCall'.res = "some"
          /\ poolCall'.res = "none" =>
                /\ ActiveKeys(pool) = {}
                /\ pool'.devices = pool.devices]_vars

\* C40: the close request is monotone and bounded: once exit() returns true it
\* returns true after every later event and redraw; an event leaves the editor
\* as it is and a redraw counts one frame whatever its draw did; and exit()
\* returns true once FrameLimit redraws were requested.
C40_CloseMonotoneAndBounded ==
    /\ [][/\ Exit(editor) => Exit(editor')
          /\ redraw'.draw = "event" => editor' = editor
          /\ redraw'.draw \in DrawOutcomes =>
                editor'.num_frames = editor.num_frames + 1]_vars
    /\ [](editor.num_frames >= FrameLimit => Exit(editor))

\* C40 witness: exit() returns true before the frame limit, set by an earlier
\* redraw that ran out of memory, after a later redraw whose draw went through.
C40_Witness ==
    /\ Exit(editor)
    /\ redraw.draw = "Ok"
    /\ editor.num_frames > 1
    /\ editor.num_frames < FrameLimit

\* C3: a push that returns a LaunchError leaves the encoder exactly as it was:
\* no instruction appended, no counter or flag changed.
C3_RejectedPushLeavesEncoder ==
    [][pushResult' = "err" => encoder' = encoder]_vars

\* C3 witness: a rejection by an encoder that already holds instructions and
\* an open command encoder.
C3_Witness ==
    /\ pushResult = "err"
    /\ encoder.is_in_command_encoder
    /\ Len(encoder.instructions) >= 2

(***************************************************************************)
(* Properties of the launcher                                              *)
(***************************************************************************)
\* The bind slot of a register: the slot at its texture index.
SlotOf(prog, l, reg) == l.binds[prog.textures.by_register[reg + 1].texture + 1]

UnboundInput(prog, l) ==
    \E r \in InputRegisters(prog) : SlotOf(prog, l, r).kind = "LateBound"

AllInputsHoldData(prog, l) ==
    /\ InputRegisters(prog) # {}
    /\ \A r \in InputRegisters(prog) : SlotOf(prog, l, r).kind = "Host"

\* The step is a call of Launcher::launch.
IsLaunchStep == launchDevice = "none" /\ launchDevice' # "none"

\* The step is a call of Launcher::bind.
IsBindStep == nbinds' = nbinds + 1

\* C4: launch with an Input whose bind slot is still LateBound returns a
\* LaunchError, lowers no instruction and does not take the pool.
C4_UnboundInputFailsLaunch ==
    [][(IsLaunchStep /\ UnboundInput(program, launcher)) =>
          /\ phase' = "failed"
          /\ encoder'.instructions = <<>>
          /\ pool' = pool
          /\ execution' = NoExecution]_vars

\* C4 witness: launch failed, with a device at hand, after one input was bound
\* and another was not.
C4_Witness ==
    /\ phase = "failed"
    /\ launchDevice = "ok"
    /\ DOMAIN bound # {}
    /\ UnboundInput(program, launcher)

\* C5: after a successful bind(register, key), however many binds came before,
\* the pool entry holds a LateBound placeholder of unchanged layout and the
\* register's bind slot holds the data the entry held before the binds.
C5_BindKeepsPlaceholder ==
    (phase = "binding" /\ bindResult = "ok") =>
        LET key == lastBind.key
        IN  /\ PoolEntry(pool, key) # NoImage
            /\ pool.items[key].data = LateBound(DataLayout(pool0.items[key].data))
            /\ SlotOf(program, launcher, lastBind.reg) = pool0.items[key].data

\* C6: bind with a key that names no image, or a register that is no Input,
\* returns a LaunchError and changes neither the pool nor any bind slot.
C6_RejectedBindChangesNothing ==
    [][(IsBindStep /\ (\/ PoolEntry(pool, lastBind'.key) = NoImage
                       \/ ~IsInput(program, lastBind'.reg))) =>
          /\ bindResult' = "err"
          /\ pool' = pool
          /\ launcher' = launcher]_vars

\* C6 witness: after a successful bind, a bind of an existing image to an
\* Output register was rejected.
C6_Witness ==
    /\ bindResult = "err"
    /\ DOMAIN bound # {}
    /\ PoolEntry(pool, lastBind.key) # NoImage
    /\ lastBind.reg + 1 \in DOMAIN program.ops
    /\ program.ops[lastBind.reg + 1].op = "Output"

\* C7: bind returns an error value, not a panic, when the layout of the image
\* under the key differs from the layout planned for the Input register.
C7_LayoutMismatchIsAnError ==
    [][(/\ IsBindStep
        /\ PoolEntry(pool, lastBind'.key) # NoImage
        /\ IsInput(program, lastBind'.reg)
        /\ DataLayout(pool.items[lastBind'.key].data)
             # DataLayout(SlotOf(program, launcher, lastBind'.reg))) =>
          bindResult' = "err"]_vars

\* C8: when every Input register is bound to an image that holds data and the
\* adapter grants a device, launch succeeds and the stream holds, for every
\* Input r, a WriteImageToBuffer from the key bound to r into r's device buffer.
C8_LaunchWritesBoundInputs ==
    (launchDevice = "ok" /\ AllInputsHoldData(program, launcher)) =>
        /\ phase \in {"running", "retired"}
        /\ \A r \in InputRegisters(program) :
               \E i \in DOMAIN execution.instructions :
                   LET w == execution.instructions[i]
                   IN  /\ w.op = "WriteImageToBuffer"
                       /\ w.source_image = bound[r]
                       /\ w.target_buffer = encoder.register_map[r].buffer

\* C9: bind, launch, stepping to completion and retire_gracefully lead to a
\* pool in which every key bound as an input holds again the data it held
\* before bind: the launch yields an execution, and once retired the images
\* are back.
C9_RetireReturnsBoundImages ==
    (launchDevice = "ok" /\ AllInputsHoldData(program, launcher)) =>
        /\ phase \in {"running", "retired"}
        /\ phase = "retired" =>
               \A r \in DOMAIN bound : pool.items[bound[r]] = pool0.items[bound[r]]

\* An Input followed by an Output that consumes it.
IsCopyProgram(prog) ==
    /\ Len(prog.ops) = 2
    /\ prog.ops[1].op = "Input"
    /\ prog.ops[2] = HighOutput(0)

\* C11: round trip.  For an Input followed by the Output that consumes it, the
\* launch yields an execution whose stream writes the image bound to the input
\* into a buffer and reads the output back from that same buffer, in the same
\* layout and with no other write between, so the output bytes are the input's.
C11_RoundTripKeepsBytes ==
    (launchDevice = "ok" /\ IsCopyProgram(program)
        /\ AllInputsHoldData(program, launcher)) =>
        /\ phase \in {"running", "retired"}
        /\ LET s == execution.instructions
           IN  \E i \in DOMAIN s : \E j \in DOMAIN s :
                   /\ i < j
                   /\ s[i].op = "WriteImageToBuffer"
                   /\ s[i].source_image = bound[0]
                   /\ s[j].op = "ReadBuffer"
                   /\ s[j].source_buffer = s[i].target_buffer
                   /\ s[j].source_layout = s[i].target_layout
                   /\ \A k \in (i + 1)..(j - 1) :
                          ~(s[k].op = "WriteImageToBuffer"
                              /\ s[k].target_buffer = s[i].target_buffer)

\* The position in stream s of the instruction that created buffer number b:
\* Buffer and BufferInit are numbered in the order they are pushed.  0 if none.
BufferCreatedAt(s, b) ==
    LET created == {i \in DOMAIN s :
                       /\ s[i].op \in {"Buffer", "BufferInit"}
                       /\ Cardinality({k \in 1..(i - 1) :
                              s[k].op \in {"Buffer", "BufferInit"}}) = b}
    IN  IF created = {} THEN 0 ELSE CHOOSE i \in created : TRUE

Disjoint(a, b) == a.end <= b.start \/ b.end <= a.start

\* C13: get succeeds for every planned register and returns its assignment, no
\* two registers have the same texture index, two registers have the same
\* buffer index only if their layouts are identical and their live ranges
\* disjoint, and get of a register that was not planned returns a LaunchError.
C13_PlanAssignsEveryRegister ==
    LET regs == 0..(Len(bufferPlan.by_register) - 1)
        assigned(r) == bufferPlan.by_register[r + 1]
    IN  /\ Len(ranges) = Len(bufferPlan.by_register)
        /\ \A r \in regs :
               /\ PlanGet(bufferPlan, r) = [res |-> "ok", val |-> assigned(r)]
               /\ assigned(r).texture + 1 \in DOMAIN bufferPlan.texture
               /\ assigned(r).buffer + 1 \in DOMAIN bufferPlan.buffer
        /\ \A r \in regs : \A q \in regs \ {r} :
               /\ assigned(r).texture # assigned(q).texture
               /\ assigned(r).buffer = assigned(q).buffer =>
                      /\ bufferPlan.texture[assigned(r).texture + 1].layout
                            = bufferPlan.texture[assigned(q).texture + 1].layout
                      /\ Disjoint(ranges[r + 1], ranges[q + 1])
        /\ planCall.res # "none" =>
               (planCall.res = "err" <=> planCall.idx >= planCall.planned)

\* C13 witness: three registers are planned, two of them of the same layout
\* and live at the same time, and get of a fourth register was refused.
C13_Witness ==
    /\ Len(bufferPlan.by_register) = 3
    /\ \E r \in 1..3 : \E q \in 1..3 :
           /\ r # q
           /\ bufferPlan.buffer[bufferPlan.by_register[r].buffer + 1]
                 = bufferPlan.buffer[bufferPlan.by_register[q].buffer + 1]
           /\ ~Disjoint(ranges[r], ranges[q])
    /\ planCall.res = "err"
    /\ planCall.idx = 3

(***************************************************************************)
(* Properties of the devices of the pool and of upload                     *)
(***************************************************************************)
\* The step is a select_device or an upload that targets the device key.
Targets(call, key) ==
    /\ call.op \in {"select_device", "upload"}
    /\ key \in call.target

\* C14 as stated: while the device of key k is lent out, every select_device
\* and every upload that targets k fails, and leaves the device slots alone.
C14_LentDeviceRefusesEveryUse ==
    [][\A l \in lent :
          Targets(poolCall', l.key) =>
             /\ poolCall'.res \notin {"some", "Ok"}
             /\ pool'.devices = pool.devices]_vars

\* C14, amended: a device is never lent out twice.  While the device of key k
\* is lent out its slot is Inactive and lent to one holder; every select_device
\* that targets k returns none; every upload that targets k fails with
\* BadImage, NoData or InactiveGpu, or is the Ok of an image that is recorded
\* on k already and changes nothing; none of them hands out or alters a device.
\* After reinsert_device(k) the slot is Active and select_device returns k.
C14_DeviceNeverLentTwice ==
    /\ [](\A l \in lent :
             /\ l.key \in DOMAIN pool.devices
             /\ pool.devices[l.key] = Inactive
             /\ \A m \in lent : (m.key = l.key \/ m.gpu = l.gpu) => m = l)
    /\ [][\A l \in lent :
             Targets(poolCall', l.key) =>
                /\ pool'.devices = pool.devices
                /\ lent' = lent
                /\ poolCall'.op = "select_device" => poolCall'.res = "none"
                /\ poolCall'.op = "upload" =>
                      \/ poolCall'.res \in {"BadImage", "NoData", "InactiveGpu"}
                      \/ /\ poolCall'.res = "Ok"
                         /\ AlreadyOn(pool.items[poolCall'.img].data, l.key)
                         /\ pool' = pool]_vars
    /\ [][poolCall'.op = "reinsert_device" =>
             \A k \in poolCall'.target :
                /\ pool'.devices[k] \in {Active(g) : g \in GpuKeys}
                /\ SelectDevice(pool').res = "some"
                /\ SelectDevice(pool').key = k]_vars

\* C14 witness: the device of a key is lent out and an upload to that key was
\* refused with InactiveGpu.
C14_Witness ==
    \E l \in lent :
       /\ poolCall.op = "upload"
       /\ poolCall.target = {l.key}
       /\ poolCall.res = "InactiveGpu"
       /\ pool.devices[l.key] = Inactive

\* The upload is asked to move the image: the key names an image with data
\* that is not recorded on the device yet.
MustMove(p, img, key) ==
    /\ PoolEntry(p, img) # NoImage
    /\ p.items[img].data.kind # "LateBound"
    /\ ~AlreadyOn(p.items[img].data, key)

C17_UploadAgainIsNoOp ==
    /\ [][(/\ poolCall'.op = "upload"
            /\ PoolEntry(pool, poolCall'.img) # NoImage
            /\ pool.items[poolCall'.img].data.kind \in {"GpuBuffer", "GpuTexture"}
            /\ pool.items[poolCall'.img].data.gpu \in poolCall'.target) =>
              /\ poolCall'.res = "Ok"
              /\ pool' = pool]_vars
    /\ [][(poolCall'.op = "upload" /\ poolCall'.res = "Ok") =>
              \A key \in poolCall'.target :
                 Upload(pool', poolCall'.img, key) = [res |-> "Ok", pool |-> pool']]_vars

\* C17 witness: an upload returned Ok for an image recorded on a device that is
\* lent out, which only the no-op does.
C17_Witness ==
    /\ poolCall.op = "upload"
    /\ poolCall.res = "Ok"
    /\ pool.items[poolCall.img].data.kind \in {"GpuBuffer", "GpuTexture"}
    /\ \E l \in lent : pool.items[poolCall.img].data.gpu = l.key
                         /\ l.key \in poolCall.target

\* C21: no LateBound entry has an inconsistent descriptor: a declare, of the
\* pool or of an entry, panics if and only if the descriptor is inconsistent,
\* and otherwise leaves the entry LateBound with the layout of the descriptor
\* and with the descriptor given.
C21_DeclareRejectsInconsistent ==
    /\ \A k \in PoolKeys :
          (pool.items[k] # NoImage /\ pool.items[k].data.kind = "LateBound") =>
             IsConsistent(pool.items[k].descriptor)
    /\ poolCall.op = "declare" =>
          /\ poolCall.res = "panic" <=> ~IsConsistent(poolCall.desc)
          /\ poolCall.res = "ok" =>
                /\ pool.items[poolCall.key].data = LateBound(poolCall.desc.layout)
                /\ pool.items[poolCall.key].descriptor = poolCall.desc

(***************************************************************************)
(* Properties of texels                                                    *)
(***************************************************************************)
\* The parts name the channel as one of several values: every arrangement of
\* R, G and B, with or without a fourth value, contains each colour channel.
ContainsChannel(parts, channel) ==
    /\ channel \in ColorChannels
    /\ parts \in { "Rgb", "Bgr", "Rgba", "Rgbx", "Bgra", "Bgrx", "Argb", "Xrgb",
                    "Abgr", "Xbgr" }

\* The bits store every channel in a component of its own, not in a sub-word
\* field of a packed integer.
Unpacked(bits) == bits \in {"Int8", "Int8x3", "Int8x4", "Float16x4", "Float32x4"}

\* C22: channel_texel returns a texel exactly when the parts contain the
\* channel and the bits are unpacked, and none otherwise; a returned texel has
\* the channel as its only part and the block and colour of the source.
C22_ChannelTexelWhenExtractable ==
    texelCall # NoTexelCall =>
       /\ texelCall.res = "some" <=>
             /\ ContainsChannel(texelCall.texel.samples.parts, texelCall.channel)
             /\ Unpacked(texelCall.texel.samples.bits)
       /\ \A t \in texelCall.out :
             /\ t.samples.parts = texelCall.channel
             /\ t.block = texelCall.texel.block
             /\ t.color = texelCall.texel.color

(***************************************************************************)
(* Properties of the editor                                                *)
(***************************************************************************)
\* C23 as stated: in a redraw whose draw fails, close_requested becomes set
\* if and only if the error is OutOfMemory; the surface recovers exactly for
\* Lost; every other error is only logged.
C23_CloseOnlyOnOutOfMemory ==
    [][(editor'.num_frames # editor.num_frames /\ redraw'.draw # "Ok") =>
          /\ editor'.close_requested <=>
                (editor.close_requested \/ redraw'.draw = "OutOfMemory")
          /\ redraw'.lost <=> redraw'.draw = "Lost"
          /\ redraw'.logged <=> redraw'.draw \notin {"Lost", "OutOfMemory"}]_vars

\* C23, amended: in a redraw whose draw fails, close_requested becomes set if
\* and only if the error is OutOfMemory or the redraw is the one that reaches
\* the frame limit (or a later one); the surface recovers exactly for Lost;
\* every other error is only logged.
C23_CloseOnOutOfMemoryOrFrameLimit ==
    [][(editor'.num_frames # editor.num_frames /\ redraw'.draw # "Ok") =>
          /\ editor'.num_frames = editor.num_frames + 1
          /\ editor'.close_requested <=>
                \/ editor.close_requested
                \/ redraw'.draw = "OutOfMemory"
                \/ editor'.num_frames >= FrameLimit
          /\ redraw'.lost <=> redraw'.draw = "Lost"
          /\ redraw'.logged <=> redraw'.draw \notin {"Lost", "OutOfMemory"}]_vars

\* C23 witness: a redraw before the frame limit, not the first one, ran out of
\* memory and the close is requested.
C23_Witness ==
    /\ redraw.draw = "OutOfMemory"
    /\ editor.close_requested
    /\ editor.num_frames > 1
    /\ editor.num_frames < FrameLimit

(***************************************************************************)
(* Properties of the cached resources of the pool                          *)
(***************************************************************************)
\* C18: every resource a Cache built by as_cache(gpu) returns was recorded for
\* gpu in the pool, has the descriptor asked for, is removed from the pool by
\* the extraction (and nothing else is), and was never returned before; an
\* extraction returns none when the pool holds no resource of that kind,
\* descriptor and gpu.
C18_CacheYieldsMatchingOnce ==
    [][poolCall'.op = "extract" =>
          /\ poolCall'.res = "some" =>
                /\ poolCall'.key \in DOMAIN pool[poolCall'.kind].slots
                /\ pool[poolCall'.kind].slots[poolCall'.key] = poolCall'.entry
                /\ poolCall'.entry.gpu = cache.gpu
                /\ poolCall'.entry.descriptor = poolCall'.desc
                /\ poolCall'.entry.data \notin extracted
                /\ DOMAIN pool'[poolCall'.kind].slots
                      = DOMAIN pool[poolCall'.kind].slots \ {poolCall'.key}
                /\ \A k \in DOMAIN pool'[poolCall'.kind].slots :
                      pool'[poolCall'.kind].slots[k] = pool[poolCall'.kind].slots[k]
                /\ \A kind \in CacheKinds \ {poolCall'.kind} : pool'[kind] = pool[kind]
          /\ (\A k \in DOMAIN pool[poolCall'.kind].slots :
                 \/ pool[poolCall'.kind].slots[k].descriptor # poolCall'.desc
                 \/ pool[poolCall'.kind].slots[k].gpu # cache.gpu)
                => poolCall'.res = "none"
          /\ poolCall'.res = "none" => pool' = pool]_vars

\* C18 witness: a Cache returned two resources of one kind, the pool holds no
\* more of that kind, and the next extraction returned none.
C18_Witness ==
    /\ cache.borrowed
    /\ poolCall.op = "extract"
    /\ poolCall.res = "none"
    /\ Cardinality({d \in extracted : d.kind = poolCall.kind}) = 2
    /\ pool[poolCall.kind].slots = EmptyMap

\* C19: every cached buffer, texture, shader and pipeline of the pool is
\* recorded, from its insertion on, with the key of the device it was
\* inserted for.
C19_RecordedGpuIsItsDevice ==
    \A kind \in CacheKinds : \A k \in DOMAIN pool[kind].slots :
       pool[kind].slots[k].gpu = pool[kind].slots[k].data.device

\* C20: clear_cache leaves no cached buffer, texture, shader or pipeline,
\* leaves the images and the device slots as they were, and a Cache built
\* from the pool afterwards returns none for every extraction.
C20_ClearCacheKeepsImagesAndDevices ==
    [][poolCall'.op = "clear_cache" =>
          /\ \A kind \in CacheKinds : pool'[kind].slots = EmptyMap
          /\ pool'.items = pool.items
          /\ pool'.devices = pool.devices
          /\ \A gpu \in GpuKeys \cup {NoGpuKey} : \A kind \in CacheKinds :
                \A desc \in CacheDescriptors :
                   Extract(pool', AsCache(pool', gpu), kind, desc).res = "none"]_vars

\* C20 witness: clear_cache ran on a pool that had been given resources of two
\* kinds, next to an image and the devices; the cache is empty, the image and the
\* devices are there.
C20_Witness ==
    /\ poolCall.op = "clear_cache"
    /\ pool.buffers.next > 1
    /\ pool.pipelines.next > 1
    /\ \A kind \in CacheKinds : pool[kind].slots = EmptyMap
    /\ pool.items = pool0.items
    /\ pool.items[1] # NoImage
    /\ pool.devices = pool0.devices
    /\ DOMAIN pool.devices # {}

(***************************************************************************)
(* Properties of the execution                                             *)
(***************************************************************************)
\* C10: stepping while is_running terminates: the instruction pointer only
\* passes instructions that were executed once and in list order, eventually
\* is_running is false for good, and then the whole list has been executed.
C10_SteppingTerminatesInOrder ==
    /\ [](execution.executed =
             SubSeq(execution.instructions, 1, execution.instruction_pointer))
    /\ [][~IsRunning(execution) => ~IsRunning(execution')]_vars
    /\ <>[](~IsRunning(execution) /\ execution.executed = execution.instructions)

\* C10 witness: an execution of two chunks, a submission inside the list, ran
\* to its end.
C10_Witness ==
    /\ ~IsRunning(execution)
    /\ execution.executed = execution.instructions
    /\ \E i \in 1..(Len(execution.instructions) - 1) :
           IsSubmission(execution.instructions[i])

====
